---- MODULE Spec2Model ----
(***************************************************************************)
(* Model of the Ecne AI report builder pipeline: the scraping dispatcher,  *)
(* the dual-provider search gateway, the relevance-scoring summarizer and  *)
(* the two-pass report synthesizer, with the tagged-response parser they   *)
(* share.                                                                  *)
(*                                                                         *)
(* Texts are sequences of symbols.  A symbol is one lexical unit of the    *)
(* text: a bracket "<", ">", a slash "/", a tag or word name, a digit or   *)
(* a blank.  The tag <think> is the text <<"<", "think", ">">>.            *)
(***************************************************************************)
EXTENDS Integers, Sequences, FiniteSets, TLC

VARIABLES
    \* ---- summarize_content (functions/processing/summarization.py)
    summ_pc,                  \* position inside summarize_content
    scraped_content,          \* main's scraped_content, the scraped_data argument
    reference_docs_content,   \* loaded reference documents
    reference_docs_summarize, \* args.reference_docs_summarize
    content_to_process,       \* the processing set built from both inputs
    item_i,                   \* loop index i of the item loop (1-based)
    attempt,                  \* loop variable of the retry loop (0-based)
    summary,                  \* local summary of the current item
    score,                    \* local score of the current item
    cleaned_response,         \* last value returned by call_ai_api
    summaries_with_scores,    \* result list
    item_llm_calls,           \* history: call_ai_api calls made for the current item
    item_tag_absent,          \* history: how many of these responses had no open tag
    \* ---- generate_report, refine_report_presentation, main steps 4-6
    rep_pc,                   \* position inside main / generate_report / refine
    score_threshold,          \* args.score_threshold
    skip_refinement,          \* args.skip_refinement
    top_summaries,            \* the score-ordered summaries of the report context
    num_ref_docs_used,        \* reference documents injected verbatim
    rep_attempt,              \* loop variable of the parse/retry loop
    rep_response,             \* cleaned_response of generate_report / refine
    report_text,              \* parsed text of the initial report
    gen_history,              \* history: replies of the generation calls, in call order
    gen_retry_logs,           \* history: "retrying" entries logged by generate_report
    gen_result,               \* what generate_report returned
    initial_file_written,     \* research_report_initial_raw.txt exists
    refine_started,           \* refine_report_presentation has been called
    ref_history,              \* history: replies of the refinement calls, in call order
    refined_report_text,      \* parsed text of the refined report
    refine_result,            \* what refine_report_presentation returned
    files_written,            \* history: the report files that exist
    pdf_success,              \* history: how convert_markdown_to_pdf ended
    final_report_path_to_show,\* main's final path
    run_status,               \* "running", "completed" or "failed" (exit(1))
    \* ---- main steps 1-3 and scrape_content (functions/scraping/content.py)
    scr_pc,                   \* position inside main step 2 / scrape_content
    direct_article_urls,      \* URLs loaded from the direct-articles file
    no_search,                \* args.no_search
    no_reddit,                \* args.no_reddit
    sources_or_urls,          \* the item list given to scrape_content
    discover_calls,           \* history: calls of discover_sources made by main
    scr_i,                    \* loop index i of the item loop (1-based)
    scraped_data,             \* result list of ContentRecords
    seen_urls_global,         \* the global dedup set
    driver_open,              \* a Selenium session is open
    subreddit_name,           \* local of the Reddit strategy
    all_post_links_for_subreddit, \* post links gathered by the subreddit searches
    links_to_scrape,          \* the posts to visit, in order
    reddit_data,              \* records of the current Reddit item
    urls_to_scrape_for_domain,\* URLs gathered by the web searches
    urls_to_process,          \* the URLs to fetch, in order
    query_idx,                \* index of the next search query (1-based)
    proc_idx,                 \* post_idx / url_idx of the next entry (1-based)
    gw,                       \* history: the gateway's calls for the last query
    fetch_log,                \* history: content fetches, in order, with their outcome
    dedup_hits,               \* history: URLs dropped because of the dedup set
    delays,                   \* history: items followed by the politeness delay
    sessions_open,            \* history: Selenium sessions acquired and not yet quit
    routes,                   \* history: <<item index, strategy>> of every item handled
    item_failures,            \* history: <<item index, kind>> of every item that failed
    \* ---- perform_direct_keyword_search (functions/search/discovery.py)
    dks_pc,                   \* position inside perform_direct_keyword_search
    keywords_list,            \* its argument
    keyword_idx,              \* index of the next keyword (1-based)
    all_found_urls,           \* URLs found so far
    dks_gw,                   \* history: the gateway's calls for the last keyword
    \* ---- direct calls of the helpers of functions/utils.py
    fn_pc,                    \* "input", or the call that has returned
    fn_text,                  \* the text argument (None or a text)
    fn_result,                \* the value returned
    fn_again,                 \* the value returned for fn_result as the argument
    clean_prev_text,          \* prev_text of clean_thinking_tags followed pass by pass
    clean_current_text,       \* its current_text
    \* ---- call_ai_api (functions/ai.py)
    ai_pc,                    \* position inside call_ai_api
    ai_config,                \* what the selected model configuration holds
    ai_timeout,               \* the timeout argument, in seconds
    ai_posts,                 \* history: the answers to the HTTP POSTs, in order
    ai_sleeps,                \* history: the waits, in seconds
    ai_result,                \* the cleaned message returned, None for (None, None)
    \* ---- discover_sources (functions/search/discovery.py)
    disc_pc,                  \* position inside discover_sources
    disc_no_reddit,           \* args.no_reddit
    disc_llm_calls,           \* history: the cleaned responses of the LLM calls
    sources_list,             \* the candidates taken from the response
    disc_k,                   \* index of the next candidate to validate (1-based)
    validated_sources,        \* the candidates accepted so far
    disc_checks,              \* history: one record per validated candidate
    disc_result,              \* the list returned
    \* ---- the capped loops of scrape_content (functions/scraping/content.py)
    lim_pc,                   \* position: before the cut, in the loop, after it
    lim_kind,                 \* "website", "reddit" or "comments"
    limit_arg,                \* args.max_web_results, max_reddit_results or max_reddit_comments
    lim_found,                \* the URLs, post links or comment paragraphs found
    lim_selected,             \* the elements the loop runs over
    lim_idx,                  \* index of the next element (1-based)
    lim_count,                \* history: fetches attempted, posts visited, or comments kept
    \* ---- the web host (app.py)
    process_running,          \* the global flag
    current_process,          \* the global Popen object: 0 for None, or the request that launched it
    app_alive,                \* the report_builder subprocesses that have not exited
    app_req,                  \* position of each generate request and of its generator
    app_client,               \* whether the client of each generate request is still connected
    stop_pc,                  \* position of the stop request being served
    stop_target,              \* the Popen object stop_report waits on
    stops_made,               \* stop requests received
    accepted_while_alive      \* history: a generate request passed line 65 with a subprocess alive

summVars == <<summ_pc, scraped_content, reference_docs_content,
              reference_docs_summarize, content_to_process, item_i, attempt,
              summary, score, cleaned_response, summaries_with_scores,
              item_llm_calls, item_tag_absent>>

repVars == <<rep_pc, score_threshold, skip_refinement, top_summaries, num_ref_docs_used,
             rep_attempt, rep_response, report_text, gen_history, gen_retry_logs,
             gen_result, initial_file_written, refine_started, ref_history,
             refined_report_text, refine_result, files_written,
                   pdf_success, final_report_path_to_show, run_status>>

\* the inputs shared by the summarizer and the synthesizer
inputVars == <<scraped_content, reference_docs_content, reference_docs_summarize>>

\* the locals of summarize_content
summLocals == <<summ_pc, content_to_process, item_i, attempt, summary, score,
                cleaned_response, item_llm_calls, item_tag_absent>>

scrVars == <<scr_pc, direct_article_urls, no_search, no_reddit, sources_or_urls,
             discover_calls, scr_i,
             scraped_data, seen_urls_global, driver_open, subreddit_name,
             all_post_links_for_subreddit, links_to_scrape, reddit_data,
             urls_to_scrape_for_domain, urls_to_process, query_idx, proc_idx, gw,
             fetch_log, dedup_hits, delays, sessions_open, routes, item_failures>>

\* the arguments of scrape_content, with the history of the step of main
\* that builds them
scrArgs == <<direct_article_urls, no_search, no_reddit, sources_or_urls, discover_calls>>

\* the locals of the Reddit strategy
redditLocals == <<subreddit_name, all_post_links_for_subreddit, links_to_scrape, reddit_data>>

\* the locals of the Website strategy
webLocals == <<urls_to_scrape_for_domain, urls_to_process>>

\* the history variables of the item loop
itemHistory == <<sessions_open, routes, item_failures>>

dksVars == <<dks_pc, keywords_list, keyword_idx, all_found_urls, dks_gw>>

fnVars == <<fn_pc, fn_text, fn_result, fn_again, clean_prev_text, clean_current_text>>

aiVars == <<ai_pc, ai_config, ai_timeout, ai_posts, ai_sleeps, ai_result>>

discVars == <<disc_pc, disc_no_reddit, disc_llm_calls, sources_list, disc_k,
              validated_sources, disc_checks, disc_result>>

limVars == <<lim_pc, lim_kind, limit_arg, lim_found, lim_selected, lim_idx, lim_count>>

appVars == <<process_running, current_process, app_alive, app_req, app_client,
             stop_pc, stop_target, stops_made, accepted_while_alive>>

vars == <<summVars, repVars, scrVars, dksVars, fnVars, aiVars, discVars, limVars, appVars>>

\* what the actions of one component leave alone
outsideSumm == <<repVars, scrVars, dksVars, fnVars, aiVars, discVars, limVars, appVars>>
outsideRep == <<summVars, scrVars, dksVars, fnVars, aiVars, discVars, limVars, appVars>>
outsideScr == <<summVars, repVars, dksVars, fnVars, aiVars, discVars, limVars, appVars>>
outsideDks == <<summVars, repVars, scrVars, fnVars, aiVars, discVars, limVars, appVars>>
outsideFn == <<summVars, repVars, scrVars, dksVars, aiVars, discVars, limVars, appVars>>
outsideAi == <<summVars, repVars, scrVars, dksVars, fnVars, discVars, limVars, appVars>>
outsideDisc == <<summVars, repVars, scrVars, dksVars, fnVars, aiVars, limVars, appVars>>
outsideLim == <<summVars, repVars, scrVars, dksVars, fnVars, aiVars, discVars, appVars>>

-----------------------------------------------------------------------------
(* Bounds of the model                                                     *)

MaxScraped == 1
MaxDigits == 2
MaxSummaries == 4
MaxItems == 2
NumQueries == 2

-----------------------------------------------------------------------------
(* Text primitives: the Python str operations the code uses                *)

Min(S) == CHOOSE x \in S : \A y \in S : x <= y
Max(S) == CHOOSE x \in S : \A y \in S : x >= y

\* str.lower() on one symbol
LowerSym(s) ==
    CASE s = "toolScrapeSummary" -> "toolscrapesummary"
      [] s = "TOOLSCRAPESUMMARY" -> "toolscrapesummary"
      [] s = "summaryScore" -> "summaryscore"
      [] s = "reportContent" -> "reportcontent"
      [] s = "refinedReport" -> "refinedreport"
      [] s = "toolWebsites" -> "toolwebsites"
      [] s = "TOOLWEBSITES" -> "toolwebsites"
      [] s = "THINK" -> "think"
      [] s = "Error:" -> "error:"
      [] s = "W" -> "w"
      [] OTHER -> s

\* str.lower() on one character: the lowercase of U+0130 (capital I with dot
\* above, written "I-dot") is the two characters i and U+0307 (written
\* "dot-above"); every other symbol keeps its length
LowerChars(s) == IF s = "I-dot" THEN <<"i", "dot-above">> ELSE <<LowerSym(s)>>

\* str.lower()
RECURSIVE Lower(_)
Lower(text) ==
    IF text = <<>> THEN <<>> ELSE LowerChars(Head(text)) \o Lower(Tail(text))

\* re.IGNORECASE on one symbol
EqFold(a, b) == LowerSym(a) = LowerSym(b)

\* the pattern pat matches text at position i, letter case ignored
MatchAtFold(text, pat, i) ==
    /\ i >= 1
    /\ i + Len(pat) - 1 <= Len(text)
    /\ \A k \in 1..Len(pat) : EqFold(text[i + k - 1], pat[k])

\* least position >= start of a match of pat, letter case ignored; 0 when
\* there is none
FindFold(text, pat, start) ==
    LET S == {i \in start..Len(text) : MatchAtFold(text, pat, i)}
    IN  IF S = {} THEN 0 ELSE Min(S)

\* text[i : i + len(pat)] == pat   (positions are 1-based)
MatchAt(text, pat, i) ==
    /\ i >= 1
    /\ i + Len(pat) - 1 <= Len(text)
    /\ \A k \in 1..Len(pat) : text[i + k - 1] = pat[k]

\* str.find(pat, start): least position >= start, 0 when there is none
Find(text, pat, start) ==
    LET S == {i \in start..Len(text) : MatchAt(text, pat, i)}
    IN  IF S = {} THEN 0 ELSE Min(S)

\* str.rfind(pat): greatest position, 0 when there is none
RFind(text, pat) ==
    LET S == {i \in 1..Len(text) : MatchAt(text, pat, i)}
    IN  IF S = {} THEN 0 ELSE Max(S)

\* pat in text
Contains(text, pat) == Find(text, pat, 1) # 0

\* str.startswith
StartsWith(text, pat) == MatchAt(text, pat, 1)

IsSpace(s) == s \in {" ", "\n"}

\* str.strip()
Strip(text) ==
    LET NonSp == {i \in 1..Len(text) : ~IsSpace(text[i])}
    IN  IF NonSp = {} THEN <<>> ELSE SubSeq(text, Min(NonSp), Max(NonSp))

\* text[from - 1 : to] of Python for 1-based positions from..to: a slice that
\* reaches past the end of the text stops at the end
Slice(text, from, to) == SubSeq(text, from, IF to > Len(text) THEN Len(text) ELSE to)

OpenTag(tag) == <<"<", tag, ">">>
CloseTag(tag) == <<"<", "/", tag, ">">>

-----------------------------------------------------------------------------
(* A value that may be None: [none |-> TRUE] or a text                     *)

NoneVal == [none |-> TRUE, text |-> <<>>]
Str(t) == [none |-> FALSE, text |-> t]

\* Python truthiness of an optional text: `not x`
Falsy(x) == x.none \/ x.text = <<>>

\* what a search provider returns: None, 'quota_error' or a list of URLs
SNone == [kind |-> "none", urls |-> <<>>]
SQuota == [kind |-> "quota", urls |-> <<>>]
SList(l) == [kind |-> "list", urls |-> l]

\* a provider that has not been called
SUnset == [kind |-> "unset", urls |-> <<>>]

\* no provider has been called
NoGw == [primary |-> SUnset, fallback_called |-> FALSE, fallback |-> SUnset,
         result |-> SUnset]

\* scrape_content is not running
ScrIdle ==
    /\ scr_pc = "idle"
    /\ direct_article_urls = <<>>
    /\ no_search = FALSE
    /\ no_reddit = FALSE
    /\ sources_or_urls = <<>>
    /\ discover_calls = 0
    /\ scr_i = 1
    /\ scraped_data = <<>>
    /\ seen_urls_global = {}
    /\ driver_open = FALSE
    /\ subreddit_name = <<>>
    /\ all_post_links_for_subreddit = {}
    /\ links_to_scrape = <<>>
    /\ reddit_data = <<>>
    /\ urls_to_scrape_for_domain = {}
    /\ urls_to_process = <<>>
    /\ query_idx = 1
    /\ proc_idx = 1
    /\ gw = NoGw
    /\ fetch_log = <<>>
    /\ dedup_hits = {}
    /\ delays = {}
    /\ sessions_open = 0
    /\ routes = {}
    /\ item_failures = {}

\* generate requests the web host is followed over
MaxRequests == 2

\* stop requests the web host is followed over
MaxStops == 1

\* the web host has received nothing
AppIdle ==
    /\ process_running = FALSE
    /\ current_process = 0
    /\ app_alive = {}
    /\ app_req = [r \in 1..MaxRequests |-> "none"]
    /\ app_client = [r \in 1..MaxRequests |-> TRUE]
    /\ stop_pc = "idle"
    /\ stop_target = 0
    /\ stops_made = 0
    /\ accepted_while_alive = FALSE

\* no capped loop is followed on its own
LimIdle ==
    /\ lim_pc = "idle"
    /\ lim_kind = "website"
    /\ limit_arg = 3
    /\ lim_found = <<>>
    /\ lim_selected = <<>>
    /\ lim_idx = 1
    /\ lim_count = 0

\* discover_sources is not running
DiscIdle ==
    /\ disc_pc = "idle"
    /\ disc_no_reddit = FALSE
    /\ disc_llm_calls = <<>>
    /\ sources_list = <<>>
    /\ disc_k = 1
    /\ validated_sources = <<>>
    /\ disc_checks = <<>>
    /\ disc_result = <<>>

\* no helper of utils.py is called directly, call_ai_api is not followed
\* step by step
FnIdle ==
    /\ fn_pc = "idle"
    /\ fn_text = NoneVal
    /\ fn_result = <<>>
    /\ fn_again = <<>>
    /\ clean_prev_text = <<>>
    /\ clean_current_text = <<>>
    /\ ai_pc = "idle"
    /\ ai_config = "ok"
    /\ ai_timeout = 300
    /\ ai_posts = <<>>
    /\ ai_sleeps = <<>>
    /\ ai_result = NoneVal
    /\ DiscIdle
    /\ LimIdle
    /\ AppIdle

\* perform_direct_keyword_search is not running
DksIdle ==
    /\ dks_pc = "idle"
    /\ keywords_list = <<>>
    /\ keyword_idx = 1
    /\ all_found_urls = {}
    /\ dks_gw = NoGw

-----------------------------------------------------------------------------
(* functions/utils.py                                                      *)

\* re.sub(r'<think>.*?</think>', '', text, IGNORECASE | DOTALL): one pass,
\* leftmost non-overlapping matches, each ending at the first close tag.
RECURSIVE ReSubThink(_, _)
ReSubThink(text, from) ==
    LET o == FindFold(text, OpenTag("think"), from)
        c == IF o = 0 THEN 0
             ELSE FindFold(text, CloseTag("think"), o + Len(OpenTag("think")))
    IN  IF o = 0 \/ c = 0 THEN text
        ELSE ReSubThink(SubSeq(text, 1, o - 1)
                          \o SubSeq(text, c + Len(CloseTag("think")), Len(text)), o)

\* the while prev_text != current_text loop
RECURSIVE CleanLoop(_)
CleanLoop(text) ==
    LET current_text == ReSubThink(text, 1)
    IN  IF current_text = text THEN text ELSE CleanLoop(current_text)

\* one pass of re.sub instead of the loop to a fixed point
clean_thinking_tags_one_pass(x) ==
    IF x.none THEN <<>> ELSE Strip(ReSubThink(x.text, 1))

\* clean_thinking_tags(text) for an optional text
clean_thinking_tags(x) ==
    IF x.none THEN <<>> ELSE Strip(CleanLoop(x.text))

\* parse_ai_tool_response(response_text, tool_tag)
parse_ai_tool_response(response_text, tool_tag) ==
    LET cleaned_text == clean_thinking_tags(response_text)
        open_tag_lower == Lower(OpenTag(tool_tag))
        close_tag_lower == Lower(CloseTag(tool_tag))
        cleaned_text_lower == Lower(cleaned_text)
        last_open_tag_index == RFind(cleaned_text_lower, open_tag_lower)
        search_start_index == last_open_tag_index + Len(OpenTag(tool_tag))
        first_close == Find(cleaned_text_lower, close_tag_lower, search_start_index)
    IN  IF cleaned_text = <<>> THEN <<>>
        ELSE IF last_open_tag_index # 0
             THEN IF first_close # 0
                  THEN Strip(Slice(cleaned_text, search_start_index, first_close - 1))
                  ELSE cleaned_text
             ELSE cleaned_text

-----------------------------------------------------------------------------
(* functions/ai.py: what call_ai_api hands back                            *)

\* call_ai_api returns (None, None) on every failure and otherwise
\* (message_content, clean_thinking_tags(message_content)); the model keeps
\* the second component.
call_ai_api_result(message) ==
    IF message.none THEN NoneVal ELSE Str(clean_thinking_tags(message))

-----------------------------------------------------------------------------
(* URLs and document paths used as inputs                                  *)

U1 == <<"https:", "/", "/", "x.com", "/", "1">>
U2 == <<"https:", "/", "/", "x.com", "/", "2">>
P1 == <<"https:", "/", "/", "old.", "reddit.com", "/", "r", "/", "a", "/", "comments", "/", "1">>
Doc1 == <<"doc1.txt">>

\* all sequences over S of length 0..n
RECURSIVE SeqsUpTo(_, _)
SeqsUpTo(S, n) ==
    IF n = 0 THEN {<<>>}
    ELSE LET shorter == SeqsUpTo(S, n - 1)
         IN  shorter \cup {Append(q, x) : q \in {r \in shorter : Len(r) = n - 1}, x \in S}

-----------------------------------------------------------------------------
(* LLM messages the summarizer can receive                                 *)

ThinkSpan == OpenTag("think") \o <<"w">> \o CloseTag("think")

\* answers without a usable summary: no tag at all, an open tag that is
\* never closed, an empty pair, a pair around blanks
BadSummaryParts ==
    { <<>>,
      <<"w">>,
      <<"w">> \o OpenTag("summaryScore") \o <<"5">> \o CloseTag("summaryScore"),
      OpenTag("toolScrapeSummary") \o <<"w">>,
      OpenTag("toolScrapeSummary") \o CloseTag("toolScrapeSummary"),
      OpenTag("toolScrapeSummary") \o <<" ">> \o CloseTag("toolScrapeSummary") }

\* answers with a summary inside the tag pair
GoodSummaryParts ==
    { OpenTag("toolScrapeSummary") \o <<"w">> \o CloseTag("toolScrapeSummary"),
      OpenTag("TOOLSCRAPESUMMARY") \o <<"w">> \o CloseTag("TOOLSCRAPESUMMARY"),
      OpenTag("toolScrapeSummary") \o <<"Error:", "w">> \o CloseTag("toolScrapeSummary") }

Digits == {"0", "1"}

DigitVal(d) ==
    CASE d = "0" -> 0 [] d = "1" -> 1 [] d = "2" -> 2 [] d = "3" -> 3 [] d = "4" -> 4
      [] d = "5" -> 5 [] d = "6" -> 6 [] d = "7" -> 7 [] d = "8" -> 8 [] d = "9" -> 9

DigitStrings == SeqsUpTo(Digits, MaxDigits) \ {<<>>}

ScoreParts ==
    { <<>>,
      OpenTag("summaryScore") \o <<"w">> \o CloseTag("summaryScore"),
      OpenTag("summaryScore") \o <<"-", "1">> \o CloseTag("summaryScore") }
    \cup { OpenTag("summaryScore") \o d \o CloseTag("summaryScore") : d \in DigitStrings }

\* message_content of the API answer; NoneVal stands for every failure of
\* the call (timeout, HTTP error, malformed JSON)
SummaryMessages ==
    {NoneVal, Str(ThinkSpan)}
    \cup { Str(s) : s \in BadSummaryParts }
    \cup { Str(s \o sc) : s \in GoodSummaryParts, sc \in ScoreParts }
    \cup { Str(ThinkSpan \o s) : s \in GoodSummaryParts }

-----------------------------------------------------------------------------
(* functions/processing/summarization.py: summarize_content                *)

MinSummaryInputLen == 100

\* a retry loop that runs once more
max_retries_plus_one == 3 + 1

max_retries == 3

ErrUnknown == <<"Error:", "Summarization Failed (Unknown)">>
ErrApiFailed == <<"Error:", "API call failed">>
ErrTagMissing == <<"Error:", "tag missing after max_retries attempts">>
ErrEmptyTag == <<"Error:", "empty tag">>

\* summary.startswith("Error:")
IsErrorSummary(s) == StartsWith(s, <<"Error:">>)

IsDigit(s) == s \in {"0", "1", "2", "3", "4", "5", "6", "7", "8", "9"}

\* re.search(r'<summaryScore>(\d{1,2})</summaryScore>', text, IGNORECASE):
\* group 1 of the leftmost match, <<>> when nothing matches
ScoreMatchAt(low, i, n) ==
    /\ MatchAt(low, Lower(OpenTag("summaryScore")), i)
    /\ i + 3 + n - 1 <= Len(low)
    /\ \A k \in 1..n : IsDigit(low[i + 3 + k - 1])
    /\ MatchAt(low, Lower(CloseTag("summaryScore")), i + 3 + n)

score_match(text) ==
    LET low == Lower(text)
        hits == {i \in 1..Len(text) : \E n \in {1, 2} : ScoreMatchAt(low, i, n)}
        first == Min(hits)
        n == CHOOSE m \in {1, 2} : ScoreMatchAt(low, first, m)
    IN  IF hits = {} THEN <<>> ELSE SubSeq(text, first + 3, first + 3 + n - 1)

\* int(group 1)
ParseInt(d) == IF Len(d) = 1 THEN DigitVal(d[1]) ELSE 10 * DigitVal(d[1]) + DigitVal(d[2])

\* parse_score without the range check of line 160
parse_score_unchecked(text) ==
    LET m == score_match(text)
    IN  IF m # <<>> THEN ParseInt(m) ELSE -1

\* lines 155-175: the score recorded for a successfully parsed summary
parse_score(text) ==
    LET m == score_match(text)
    IN  IF m # <<>>
        THEN IF 0 <= ParseInt(m) /\ ParseInt(m) <= 10 THEN ParseInt(m) ELSE -1
        ELSE -1

\* lines 21-30: scraped items that have both content and URL
RECURSIVE ScrapedToProcess(_)
ScrapedToProcess(data) ==
    IF data = <<>> THEN <<>>
    ELSE LET d == Head(data)
             rest == ScrapedToProcess(Tail(data))
         IN  IF d.content_len # 0 /\ d.url # <<>>
             THEN <<[type |-> "scraped", source_id |-> d.url, content_len |-> d.content_len]>> \o rest
             ELSE rest

\* lines 35-46: reference documents, only when the summarize flag is set
RefsToProcess(docs, flag) ==
    IF flag /\ docs # <<>>
    THEN [k \in 1..Len(docs) |->
            [type |-> "reference", source_id |-> docs[k].path, content_len |-> docs[k].content_len]]
    ELSE <<>>

\* lines 19-56
summarize_prepare ==
    /\ summ_pc = "prepare"
    /\ content_to_process' = ScrapedToProcess(scraped_content)
                               \o RefsToProcess(reference_docs_content, reference_docs_summarize)
    /\ summ_pc' = IF content_to_process' = <<>> THEN "done" ELSE "item"
    /\ item_i' = 1
    /\ summaries_with_scores' = <<>>
    /\ UNCHANGED <<scraped_content, reference_docs_content, reference_docs_summarize,
                   attempt, summary, score, cleaned_response, item_llm_calls, item_tag_absent>>
    /\ UNCHANGED outsideSumm

\* lines 72-75: an item shorter than 100 characters is skipped
summarize_skip_short ==
    /\ summ_pc = "item"
    /\ item_i <= Len(content_to_process)
    /\ content_to_process[item_i].content_len < MinSummaryInputLen
    /\ item_i' = item_i + 1
    /\ UNCHANGED <<summ_pc, scraped_content, reference_docs_content, reference_docs_summarize,
                   content_to_process, attempt, summary, score, cleaned_response,
                   summaries_with_scores, item_llm_calls, item_tag_absent>>
    /\ UNCHANGED outsideSumm

\* lines 59-114: set up the retry loop for an item
summarize_begin_item ==
    /\ summ_pc = "item"
    /\ item_i <= Len(content_to_process)
    /\ content_to_process[item_i].content_len >= MinSummaryInputLen
    /\ summ_pc' = "attempt"
    /\ attempt' = 0
    /\ summary' = ErrUnknown
    /\ score' = -1
    /\ cleaned_response' = NoneVal
    /\ item_llm_calls' = 0
    /\ item_tag_absent' = 0
    /\ UNCHANGED <<scraped_content, reference_docs_content, reference_docs_summarize,
                   content_to_process, item_i, summaries_with_scores>>
    /\ UNCHANGED outsideSumm

\* the literal open tag does not occur in the response, in any letter case
TagAbsent(text, tag) == ~Contains(Lower(text), Lower(OpenTag(tag)))

\* a retry test that also fires on an empty parse
is_tag_missing_error_or_empty(parsed_summary, resp) ==
    \/ parsed_summary = <<>>
    \/ /\ parsed_summary = resp
       /\ ~Contains(Lower(resp), OpenTag("toolScrapeSummary"))

\* line 132
is_tag_missing_error(parsed_summary, resp) ==
    /\ parsed_summary = resp
    /\ ~Contains(Lower(resp), OpenTag("toolScrapeSummary"))

\* what call_ai_api can return to the summarizer
SummaryReplies == {call_ai_api_result(m) : m \in SummaryMessages}

\* lines 116-176: one iteration of the retry loop
summarize_attempt ==
    /\ summ_pc = "attempt"
    /\ attempt < max_retries
    /\ \E resp \in SummaryReplies :
         LET parsed_summary == parse_ai_tool_response(resp, "toolScrapeSummary")
         IN  /\ cleaned_response' = resp
             /\ item_llm_calls' = item_llm_calls + 1
             /\ item_tag_absent' = item_tag_absent +
                    (IF ~resp.none /\ TagAbsent(resp.text, "toolScrapeSummary") THEN 1 ELSE 0)
             /\ IF Falsy(resp)
                THEN /\ summary' = ErrApiFailed
                     /\ score' = -1
                     /\ summ_pc' = "append"
                     /\ UNCHANGED attempt
                ELSE IF is_tag_missing_error(parsed_summary, resp.text)
                THEN IF attempt < max_retries - 1
                     THEN /\ attempt' = attempt + 1
                          /\ UNCHANGED <<summary, score, summ_pc>>
                     ELSE /\ summary' = ErrTagMissing
                          /\ score' = -1
                          /\ summ_pc' = "append"
                          /\ UNCHANGED attempt
                ELSE IF parsed_summary = <<>>
                THEN /\ summary' = ErrEmptyTag
                     /\ score' = -1
                     /\ summ_pc' = "append"
                     /\ UNCHANGED attempt
                ELSE /\ summary' = parsed_summary
                     /\ score' = parse_score(resp.text)
                     /\ summ_pc' = "append"
                     /\ UNCHANGED attempt
    /\ UNCHANGED <<scraped_content, reference_docs_content, reference_docs_summarize,
                   content_to_process, item_i, summaries_with_scores>>
    /\ UNCHANGED outsideSumm

\* lines 180-181: the record of the item is appended
summarize_append ==
    /\ summ_pc = "append"
    /\ summaries_with_scores' = Append(summaries_with_scores,
          [type |-> content_to_process[item_i].type,
           source_id |-> content_to_process[item_i].source_id,
           summary |-> summary,
           score |-> score])
    /\ item_i' = item_i + 1
    /\ summ_pc' = "item"
    /\ UNCHANGED <<scraped_content, reference_docs_content, reference_docs_summarize,
                   content_to_process, attempt, summary, score, cleaned_response,
                   item_llm_calls, item_tag_absent>>
    /\ UNCHANGED outsideSumm

\* line 197: the item loop is exhausted
summarize_return ==
    /\ summ_pc = "item"
    /\ item_i > Len(content_to_process)
    /\ summ_pc' = "done"
    /\ UNCHANGED <<scraped_content, reference_docs_content, reference_docs_summarize,
                   content_to_process, item_i, attempt, summary, score, cleaned_response,
                   summaries_with_scores, item_llm_calls, item_tag_absent>>
    /\ UNCHANGED outsideSumm

ScrapedPool == <<U1, P1, U2>>
ScrapedLen == 200
RefDocLens == {50, 150}

\* the first n scraped records; scrape_content returns distinct URLs whose
\* content is longer than the scraping minimum
ScrapedInputs(n) ==
    {[k \in 1..m |-> [url |-> ScrapedPool[k], content_len |-> ScrapedLen]] : m \in 0..n}

\* no document, or one loaded document of either length
RefDocInputs ==
    {<<>>} \cup {<<[path |-> Doc1, content_len |-> n]>> : n \in RefDocLens}

\* the synthesizer before it is called
RepLocalsInit ==
    /\ top_summaries = <<>>
    /\ num_ref_docs_used = 0
    /\ rep_attempt = 0
    /\ rep_response = NoneVal
    /\ report_text = <<>>
    /\ gen_history = <<>>
    /\ gen_retry_logs = 0
    /\ gen_result = "none"
    /\ initial_file_written = FALSE
    /\ refine_started = FALSE
    /\ ref_history = <<>>
    /\ refined_report_text = <<>>
    /\ refine_result = "none"
    /\ files_written = {}
    /\ pdf_success = "none"
    /\ final_report_path_to_show = "unset"
    /\ run_status = "running"

RepIdle ==
    /\ rep_pc = "idle"
    /\ score_threshold = 5
    /\ skip_refinement = FALSE
    /\ RepLocalsInit

InitSumm ==
    /\ FnIdle
    /\ RepIdle
    /\ ScrIdle
    /\ DksIdle
    /\ summ_pc = "prepare"
    /\ scraped_content \in ScrapedInputs(MaxScraped)
    /\ reference_docs_content \in RefDocInputs
    /\ reference_docs_summarize \in BOOLEAN
    /\ content_to_process = <<>>
    /\ item_i = 1
    /\ attempt = 0
    /\ summary = ErrUnknown
    /\ score = -1
    /\ cleaned_response = NoneVal
    /\ summaries_with_scores = <<>>
    /\ item_llm_calls = 0
    /\ item_tag_absent = 0

NextSumm ==
    \/ summarize_prepare
    \/ summarize_skip_short
    \/ summarize_begin_item
    \/ summarize_attempt
    \/ summarize_append
    \/ summarize_return

SpecSumm == InitSumm /\ [][NextSumm]_vars

-----------------------------------------------------------------------------
(* functions/processing/report_generation.py: generate_report, pass 1      *)

gen_max_retries_plus_one == 3 + 1

\* line 98
gen_max_retries == 3

\* a record is kept whatever its summary text
is_valid_summary_any_text(s, threshold) == s.score >= threshold

\* line 21: the condition of the list comprehension
is_valid_summary(s, threshold) ==
    s.score >= threshold /\ ~IsErrorSummary(s.summary)

\* line 21: the summaries that enter the report context, in input order
RECURSIVE valid_summaries(_, _)
valid_summaries(summaries, threshold) ==
    IF summaries = <<>> THEN <<>>
    ELSE LET s == Head(summaries)
             rest == valid_summaries(Tail(summaries), threshold)
         IN  IF is_valid_summary(s, threshold)
             THEN <<s>> \o rest
             ELSE rest

\* insertion that keeps s behind every element scoring no less than s
RECURSIVE InsertDesc(_, _)
InsertDesc(sorted, s) ==
    IF sorted = <<>> THEN <<s>>
    ELSE IF Head(sorted).score >= s.score
         THEN <<Head(sorted)>> \o InsertDesc(Tail(sorted), s)
         ELSE <<s>> \o sorted

\* insertion in ascending order of score
RECURSIVE InsertAsc(_, _)
InsertAsc(sorted, s) ==
    IF sorted = <<>> THEN <<s>>
    ELSE IF Head(sorted).score <= s.score
         THEN <<Head(sorted)>> \o InsertAsc(Tail(sorted), s)
         ELSE <<s>> \o sorted

\* sorted(..., key=score) without reverse=True
RECURSIVE SortByScoreAsc(_)
SortByScoreAsc(list) ==
    IF list = <<>> THEN <<>>
    ELSE InsertAsc(SortByScoreAsc(SubSeq(list, 1, Len(list) - 1)), list[Len(list)])

\* line 27: sorted(valid_summaries, key=score, reverse=True), a stable sort
RECURSIVE SortByScoreDesc(_)
SortByScoreDesc(list) ==
    IF list = <<>> THEN <<>>
    ELSE InsertDesc(SortByScoreDesc(SubSeq(list, 1, Len(list) - 1)), list[Len(list)])

\* the documents go into the prompt whatever the flag says
ref_docs_used_whatever_flag(docs, flag) == Len(docs)

\* line 42: reference documents go into the prompt verbatim
ref_docs_used(docs, flag) == IF docs # <<>> /\ ~flag THEN Len(docs) ELSE 0

\* `not report_text or report_text == clean_thinking_tags(cleaned_response)`
parse_failed(parsed, resp) == parsed = <<>> \/ parsed = clean_thinking_tags(resp)

\* message_content of the answers to a prompt that asks for <tag>..</tag>
TaggedMessages(tag) ==
    { NoneVal,
      Str(ThinkSpan),
      Str(<<"w">>),
      Str(OpenTag(tag) \o <<"r1">>),
      Str(OpenTag(tag) \o CloseTag(tag)),
      Str(OpenTag(tag) \o <<"r1">> \o CloseTag(tag)),
      Str(ThinkSpan \o <<"w">> \o OpenTag(tag) \o <<"r2">> \o CloseTag(tag) \o <<"w">>) }

ReportReplies == {call_ai_api_result(m) : m \in TaggedMessages("reportContent")}
RefineReplies == {call_ai_api_result(m) : m \in TaggedMessages("refinedReport")}

\* the parse of each answer, and whether the loop takes it as failed
ParsedReport ==
    [resp \in ReportReplies |->
        [report_text |-> parse_ai_tool_response(resp, "reportContent"), failed |-> parse_failed(parse_ai_tool_response(resp, "reportContent"), resp)]]
ParsedRefine ==
    [resp \in RefineReplies |->
        [report_text |-> parse_ai_tool_response(resp, "refinedReport"), failed |-> parse_failed(parse_ai_tool_response(resp, "refinedReport"), resp)]]

\* generate_report returns (None, None, None)
generate_report_fails ==
    /\ gen_result' = "failed"
    /\ rep_pc' = "main_after_generate"

\* lines 20-55: the report context, or the early return when it is empty
generate_report_context ==
    /\ rep_pc = "generate_report"
    /\ top_summaries' = SortByScoreDesc(valid_summaries(summaries_with_scores, score_threshold))
    /\ num_ref_docs_used' = ref_docs_used(reference_docs_content, reference_docs_summarize)
    /\ IF Len(top_summaries') = 0 /\ num_ref_docs_used' = 0
       THEN generate_report_fails
       ELSE /\ rep_pc' = "gen_call"
            /\ UNCHANGED gen_result
    /\ UNCHANGED <<score_threshold, skip_refinement, rep_attempt, rep_response, report_text,
                   gen_history, gen_retry_logs, initial_file_written, refine_started,
                   ref_history, refined_report_text, refine_result, files_written,
                   pdf_success,
                   final_report_path_to_show, run_status>>
    /\ UNCHANGED outsideRep

\* lines 80-99: the first LLM call
generate_report_call ==
    /\ rep_pc = "gen_call"
    /\ \E resp \in ReportReplies :
         /\ rep_response' = resp
         /\ gen_history' = Append(gen_history, resp)
         /\ IF Falsy(resp)
            THEN generate_report_fails
            ELSE /\ rep_pc' = "gen_parse"
                 /\ UNCHANGED gen_result
    /\ rep_attempt' = 0
    /\ UNCHANGED <<score_threshold, skip_refinement, top_summaries, num_ref_docs_used,
                   report_text, gen_retry_logs, initial_file_written, refine_started,
                   ref_history, refined_report_text, refine_result, files_written,
                   pdf_success,
                   final_report_path_to_show, run_status>>
    /\ UNCHANGED outsideRep

\* lines 101-130: one iteration of the parse loop, with the regeneration call
generate_report_parse ==
    /\ rep_pc = "gen_parse"
    /\ rep_attempt < gen_max_retries
    /\ LET parsed == ParsedReport[rep_response]
       IN  /\ report_text' = parsed.report_text
           /\ IF parsed.failed
              THEN IF rep_attempt < gen_max_retries - 1
                   THEN /\ gen_retry_logs' = gen_retry_logs + 1
                        /\ \E resp \in ReportReplies :
                             /\ rep_response' = resp
                             /\ gen_history' = Append(gen_history, resp)
                        /\ rep_attempt' = rep_attempt + 1
                        /\ UNCHANGED <<rep_pc, gen_result>>
                   ELSE /\ generate_report_fails
                        /\ UNCHANGED <<gen_retry_logs, rep_response, gen_history, rep_attempt>>
              ELSE /\ rep_pc' = "gen_save"
                   /\ UNCHANGED <<gen_retry_logs, rep_response, gen_history, rep_attempt,
                                  gen_result>>
    /\ UNCHANGED <<score_threshold, skip_refinement, top_summaries, num_ref_docs_used,
                   initial_file_written, refine_started, ref_history, refined_report_text,
                   refine_result, files_written,
                   pdf_success, final_report_path_to_show, run_status>>
    /\ UNCHANGED outsideRep

\* a line of a references list: an indexed entry, or the note that stands
\* for an empty list
ReferenceEntry(i, source_id) == [kind |-> "entry", index |-> i, source_id |-> source_id]
NoReferencesNote == [kind |-> "note", index |-> 0, source_id |-> <<>>]

\* the documents get their entries too
references_string_with_docs(summaries, docs) ==
    IF summaries = <<>> THEN <<NoReferencesNote>>
    ELSE [i \in 1..(Len(summaries) + Len(docs)) |->
            IF i <= Len(summaries) THEN ReferenceEntry(i, summaries[i].source_id)
            ELSE ReferenceEntry(i, docs[i - Len(summaries)].path)]

\* lines 132-145: "Summary_<i+1> = <source_id>" for the summaries of the
\* context in their order; the reference documents are not looked at
references_string(summaries, docs) ==
    IF summaries = <<>> THEN <<NoReferencesNote>>
    ELSE [i \in 1..Len(summaries) |-> ReferenceEntry(i, summaries[i].source_id)]

\* os.path.basename: what follows the last "/"
basename(path) == SubSeq(path, RFind(path, <<"/">>) + 1, Len(path))

\* lines 378-407: "<ref_counter>. <source>" for the summaries, then for the
\* reference documents that were not summarized
references_section_for_prompt(summaries, docs, summarize) ==
    LET listed == IF docs # <<>> /\ ~summarize THEN docs ELSE <<>>
    IN  IF summaries = <<>> /\ listed = <<>> THEN <<NoReferencesNote>>
        ELSE [i \in 1..(Len(summaries) + Len(listed)) |->
                IF i <= Len(summaries) THEN ReferenceEntry(i, summaries[i].source_id)
                ELSE ReferenceEntry(i, basename(listed[i - Len(summaries)].path))]

\* a report file: where it is, its base name and extension, the report text
\* in it and the references list written after the text
ReportFile(dir, name, ext, text, references) ==
    [dir |-> dir, name |-> name, ext |-> ext, text |-> text, references |-> references]

\* the file is created and the report text is not written to it
initial_report_file_without_text(dir, text, references) ==
    ReportFile(dir, "research_report_initial_raw", "txt", <<>>, references)

\* lines 149-156 and 169-173: research_report_initial_raw.txt
initial_report_file(dir, text, references) ==
    ReportFile(dir, "research_report_initial_raw", "txt", text, references)

\* lines 512-519: <timestamp>_<topic_slug>_report.md in outputs/
markdown_file(text) == ReportFile("outputs", "report", "md", text, <<>>)

\* lines 515-528: <timestamp>_<topic_slug>_report.pdf in outputs/
pdf_file(text) == ReportFile("outputs", "report", "pdf", text, <<>>)

\* lines 545-548: refined_report_FALLBACK_<timestamp>.txt in the archive
fallback_file(text) == ReportFile("archive", "refined_report_FALLBACK", "txt", text, <<>>)

\* lines 132-185: the initial report is written to the archive, or to the
\* working directory when the archive cannot be written, or not at all
generate_report_save ==
    /\ rep_pc = "gen_save"
    /\ \E io \in {"archive", "cwd", "ioerror"} :
         /\ initial_file_written' = (io # "ioerror")
         /\ files_written' = IF io = "ioerror" THEN files_written
                             ELSE files_written \cup
                                    {initial_report_file(io, report_text,
                                        references_string(top_summaries,
                                                          reference_docs_content))}
         /\ gen_result' = IF io = "ioerror" THEN "failed" ELSE io
    /\ rep_pc' = "main_after_generate"
    /\ UNCHANGED <<score_threshold, skip_refinement, top_summaries, num_ref_docs_used,
                   rep_attempt, rep_response, report_text, gen_history, gen_retry_logs,
                   refine_started, ref_history, refined_report_text, refine_result, pdf_success,
                   final_report_path_to_show, run_status>>
    /\ UNCHANGED outsideRep

-----------------------------------------------------------------------------
(* functions/processing/report_generation.py: refine_report_presentation   *)

\* a parse loop that runs once more
refine_max_retries_plus_one == 3 + 1

\* line 464
refine_max_retries == 3

\* the failure is raised instead of returned
refine_failure_raised == "raised"

\* `return None` of the LLM and parse stages
refine_failure_value == "None"

\* refine_report_presentation returns None
refine_fails ==
    /\ refine_result' = refine_failure_value
    /\ UNCHANGED <<files_written, pdf_success>>
    /\ rep_pc' = "main_after_refine"

\* lines 368-460: the references section, the prompt and the first LLM call
refine_report_call ==
    /\ rep_pc = "refine_call"
    /\ \E resp \in RefineReplies :
         /\ rep_response' = resp
         /\ ref_history' = Append(ref_history, resp)
         /\ IF Falsy(resp)
            THEN refine_fails
            ELSE /\ rep_pc' = "refine_parse"
                 /\ UNCHANGED <<refine_result, files_written, pdf_success>>
    /\ rep_attempt' = 0
    /\ UNCHANGED <<score_threshold, skip_refinement, top_summaries, num_ref_docs_used,
                   report_text, gen_history, gen_retry_logs, gen_result,
                   initial_file_written, refine_started, refined_report_text,
                   final_report_path_to_show, run_status>>
    /\ UNCHANGED outsideRep

\* lines 467-496: one iteration of the parse loop, with the regeneration call
refine_report_parse ==
    /\ rep_pc = "refine_parse"
    /\ rep_attempt < refine_max_retries
    /\ LET parsed == ParsedRefine[rep_response]
       IN  /\ refined_report_text' = parsed.report_text
           /\ IF parsed.failed
              THEN IF rep_attempt < refine_max_retries - 1
                   THEN /\ \E resp \in RefineReplies :
                             /\ rep_response' = resp
                             /\ ref_history' = Append(ref_history, resp)
                        /\ rep_attempt' = rep_attempt + 1
                        /\ UNCHANGED <<rep_pc, refine_result, files_written, pdf_success>>
                   ELSE /\ refine_fails
                        /\ UNCHANGED <<rep_response, ref_history, rep_attempt>>
              ELSE /\ rep_pc' = "refine_save"
                   /\ UNCHANGED <<rep_response, ref_history, rep_attempt, refine_result,
                                  files_written, pdf_success>>
    /\ UNCHANGED <<score_threshold, skip_refinement, top_summaries, num_ref_docs_used,
                   report_text, gen_history, gen_retry_logs, gen_result,
                   initial_file_written, refine_started, final_report_path_to_show,
                   run_status>>
    /\ UNCHANGED outsideRep

\* report_builder.py lines 1604-1653, the copy main calls: both paths when
\* convert_markdown_to_pdf returns, whatever it returns; the markdown path
\* when it raises.  The handler of IOError formats its message with the
\* unbound name final_filepath (lines 1638-1639), so a failed write leaves
\* the function by a NameError.
rb_refine_save_result(md, pdf) ==
    IF md = "ioerror" THEN "raised"
    ELSE IF pdf = "raised" THEN "md"
    ELSE "md_and_pdf"

\* report_builder.py lines 1604-1653: the refined markdown is written and
\* converted to PDF
refine_report_save ==
    /\ rep_pc = "refine_save"
    /\ \E md \in {"written", "ioerror"}, pdf \in {"true", "false", "raised"} :
         /\ refine_result' = rb_refine_save_result(md, pdf)
         /\ files_written' = IF md = "ioerror" THEN files_written
                             ELSE IF pdf = "true"
                             THEN files_written \cup {markdown_file(refined_report_text),
                                                      pdf_file(refined_report_text)}
                             ELSE files_written \cup {markdown_file(refined_report_text)}
         /\ pdf_success' = IF md = "ioerror" THEN "none" ELSE pdf
    /\ rep_pc' = "main_after_refine"
    /\ UNCHANGED <<score_threshold, skip_refinement, top_summaries, num_ref_docs_used,
                   rep_attempt, rep_response, report_text, gen_history, gen_retry_logs,
                   gen_result, initial_file_written, refine_started, ref_history,
                   refined_report_text, final_report_path_to_show, run_status>>
    /\ UNCHANGED outsideRep

\* the value convert_markdown_to_pdf returns is not looked at
refine_save_result_ignores_pdf(md, pdf) ==
    IF md = "ioerror" THEN "None"
    ELSE IF pdf = "raised" THEN "md"
    ELSE "md_and_pdf"

\* lines 522-556: both paths after a conversion that returned True, the
\* markdown path after one that returned False or raised, None when the
\* markdown could not be written
refine_save_result(md, pdf) ==
    IF md = "ioerror" THEN "None"
    ELSE IF pdf = "true" THEN "md_and_pdf"
    ELSE "md"

\* functions/processing/report_generation.py lines 499-556: the refined
\* markdown is written and converted to PDF; when the markdown cannot be
\* written the text goes to a fallback file in the archive, if that can be
\* written
refine_report_presentation_save ==
    /\ rep_pc = "refine_save"
    /\ \E md \in {"written", "ioerror"}, pdf \in {"true", "false", "raised"},
          fallback \in BOOLEAN :
         /\ refine_result' = refine_save_result(md, pdf)
         /\ files_written' =
               IF md = "ioerror"
               THEN IF fallback THEN files_written \cup {fallback_file(refined_report_text)}
                    ELSE files_written
               ELSE IF pdf = "true"
               THEN files_written \cup {markdown_file(refined_report_text),
                                        pdf_file(refined_report_text)}
               ELSE files_written \cup {markdown_file(refined_report_text)}
         /\ pdf_success' = IF md = "ioerror" THEN "none" ELSE pdf
    /\ rep_pc' = "main_after_refine"
    /\ UNCHANGED <<score_threshold, skip_refinement, top_summaries, num_ref_docs_used,
                   rep_attempt, rep_response, report_text, gen_history, gen_retry_logs,
                   gen_result, initial_file_written, refine_started, ref_history,
                   refined_report_text, final_report_path_to_show, run_status>>
    /\ UNCHANGED outsideRep

-----------------------------------------------------------------------------
(* report_builder.py: main, steps 4 to 6 and completion                    *)

\* line 1923
have_valid_summaries ==
    \E k \in 1..Len(summaries_with_scores) :
        /\ ~IsErrorSummary(summaries_with_scores[k].summary)
        /\ summaries_with_scores[k].score >= score_threshold

\* line 1924
have_usable_ref_docs == reference_docs_content # <<>> /\ ~reference_docs_summarize

\* an except clause that lets the run end as completed
main_fatal_completes ==
    /\ run_status' = "completed"
    /\ rep_pc' = "exit"

\* lines 2003-2012: the except clause of main, exit(1)
main_fatal ==
    /\ run_status' = "failed"
    /\ rep_pc' = "exit"

repLocals == <<score_threshold, skip_refinement, top_summaries, num_ref_docs_used,
               rep_attempt, rep_response, report_text, gen_history, gen_retry_logs,
               gen_result, initial_file_written, ref_history, refined_report_text,
               refine_result, files_written,
                   pdf_success>>

\* lines 1923-1934: RuntimeError when nothing can feed the report
main_check_summaries ==
    /\ rep_pc = "main_check_summaries"
    /\ IF ~have_valid_summaries /\ ~have_usable_ref_docs
       THEN main_fatal
       ELSE /\ rep_pc' = "generate_report"
            /\ UNCHANGED run_status
    /\ UNCHANGED <<repLocals, refine_started, final_report_path_to_show>>
    /\ UNCHANGED outsideRep

\* the result of generate_report is used without a look at it
generation_succeeded_unchecked(result) == TRUE

\* lines 1937-1941: three values, with a path and a content
generation_succeeded(result) == result # "failed"

\* lines 1937-1946: the result of generate_report is checked
main_after_generate ==
    /\ rep_pc = "main_after_generate"
    /\ IF ~generation_succeeded(gen_result)
       THEN /\ main_fatal
            /\ UNCHANGED final_report_path_to_show
       ELSE /\ final_report_path_to_show' = "initial"
            /\ rep_pc' = "main_refine"
            /\ UNCHANGED run_status
    /\ UNCHANGED <<repLocals, refine_started>>
    /\ UNCHANGED outsideRep

\* lines 1951-1975: refinement is skipped on request, else it is called
main_refine ==
    /\ rep_pc = "main_refine"
    /\ IF skip_refinement
       THEN /\ rep_pc' = "main_complete"
            /\ UNCHANGED refine_started
       ELSE /\ rep_pc' = "refine_call"
            /\ refine_started' = TRUE
    /\ UNCHANGED <<repLocals, final_report_path_to_show, run_status>>
    /\ UNCHANGED outsideRep

\* lines 1976-1982: a refined path replaces the initial one; an exception
\* raised by the refinement reaches the except clause of main
main_after_refine ==
    /\ rep_pc = "main_after_refine"
    /\ IF refine_result = "raised"
       THEN /\ main_fatal
            /\ UNCHANGED final_report_path_to_show
       ELSE /\ final_report_path_to_show' =
                  IF refine_result # "None" THEN "refined" ELSE final_report_path_to_show
            /\ rep_pc' = "main_complete"
            /\ UNCHANGED run_status
    /\ UNCHANGED <<repLocals, refine_started>>
    /\ UNCHANGED outsideRep

\* lines 1984-2001: the run ends normally
main_complete ==
    /\ rep_pc = "main_complete"
    /\ IF final_report_path_to_show = "unset"
       THEN main_fatal
       ELSE /\ run_status' = "completed"
            /\ rep_pc' = "exit"
    /\ UNCHANGED <<repLocals, refine_started, final_report_path_to_show>>
    /\ UNCHANGED outsideRep

\* the summarizer at rest
SummIdle ==
    /\ summ_pc = "idle"
    /\ scraped_content = <<>>
    /\ content_to_process = <<>>
    /\ item_i = 1
    /\ attempt = 0
    /\ summary = ErrUnknown
    /\ score = -1
    /\ cleaned_response = NoneVal
    /\ item_llm_calls = 0
    /\ item_tag_absent = 0

Url(k) == <<"https:", "/", "/", "x.com", "/", ToString(k)>>

\* a SummaryRecord as summarize_content builds it
SummaryRecord(k, kind) ==
    [type |-> "scraped", source_id |-> Url(k), summary |-> kind[1], score |-> kind[2]]

\* summary text and score of the records given to the synthesizer
RecordKinds ==
    {<<<<"w">>, sc>> : sc \in {-1, 3, 6, 8}} \cup {<<ErrTagMissing, -1>>, <<<<"Error:", "w">>, 8>>}

SummaryInputs(n) ==
    UNION {{[k \in 1..m |-> SummaryRecord(k, f[k])] : f \in [1..m -> RecordKinds]} : m \in 0..n}

\* generate_report is entered with any list of records and threshold
InitContext ==
    /\ FnIdle
    /\ SummIdle
    /\ ScrIdle
    /\ DksIdle
    /\ RepLocalsInit
    /\ rep_pc = "generate_report"
    /\ summaries_with_scores \in SummaryInputs(MaxSummaries)
    /\ score_threshold \in {-1, 5}
    /\ reference_docs_content \in {<<>>, <<[path |-> Doc1, content_len |-> 150]>>}
    /\ reference_docs_summarize \in BOOLEAN
    /\ skip_refinement = FALSE

NextContext == generate_report_context

SpecContext == InitContext /\ [][NextContext]_vars

ReportSummaryInputs ==
    { <<>>,
      <<SummaryRecord(1, <<<<"w">>, 3>>)>>,
      <<SummaryRecord(1, <<<<"w">>, 6>>), SummaryRecord(2, <<<<"w">>, 8>>)>> }

\* main after summarize_content has returned
InitReport ==
    /\ FnIdle
    /\ SummIdle
    /\ ScrIdle
    /\ DksIdle
    /\ RepLocalsInit
    /\ rep_pc = "main_check_summaries"
    /\ summaries_with_scores \in ReportSummaryInputs
    /\ score_threshold = 5
    /\ reference_docs_content \in {<<>>, <<[path |-> Doc1, content_len |-> 150]>>}
    /\ reference_docs_summarize \in BOOLEAN
    /\ skip_refinement \in BOOLEAN

NextReport ==
    \/ main_check_summaries
    \/ generate_report_context
    \/ generate_report_call
    \/ generate_report_parse
    \/ generate_report_save
    \/ main_after_generate
    \/ main_refine
    \/ refine_report_call
    \/ refine_report_parse
    \/ refine_report_save
    \/ main_after_refine
    \/ main_complete

SpecReport == InitReport /\ [][NextReport]_vars

-----------------------------------------------------------------------------
(* The end of a run: generate_report has parsed a report out of its first  *)
(* response; the report is saved, refined by refine_report_presentation of *)
(* functions/processing/report_generation.py, and main completes           *)

\* responses out of which the first parse takes a report
ParsedReportReplies ==
    {r \in ReportReplies :
        ~Falsy(r) /\ ~parse_failed(parse_ai_tool_response(r, "reportContent"), r)}

InitFinish ==
    /\ FnIdle
    /\ SummIdle
    /\ ScrIdle
    /\ DksIdle
    /\ rep_pc = "gen_save"
    /\ summaries_with_scores \in ReportSummaryInputs
    /\ score_threshold = 5
    /\ reference_docs_content \in {<<>>, <<[path |-> Doc1, content_len |-> 150]>>}
    /\ reference_docs_summarize \in BOOLEAN
    /\ skip_refinement \in BOOLEAN
    /\ top_summaries = SortByScoreDesc(valid_summaries(summaries_with_scores, score_threshold))
    /\ num_ref_docs_used = ref_docs_used(reference_docs_content, reference_docs_summarize)
    /\ Len(top_summaries) # 0 \/ num_ref_docs_used # 0
    /\ rep_attempt = 0
    /\ rep_response \in ParsedReportReplies
    /\ report_text = parse_ai_tool_response(rep_response, "reportContent")
    /\ gen_history = <<rep_response>>
    /\ gen_retry_logs = 0
    /\ gen_result = "none"
    /\ initial_file_written = FALSE
    /\ refine_started = FALSE
    /\ ref_history = <<>>
    /\ refined_report_text = <<>>
    /\ refine_result = "none"
    /\ files_written = {}
    /\ pdf_success = "none"
    /\ final_report_path_to_show = "unset"
    /\ run_status = "running"

NextFinish ==
    \/ generate_report_save
    \/ main_after_generate
    \/ main_refine
    \/ refine_report_call
    \/ refine_report_parse
    \/ refine_report_presentation_save
    \/ main_after_refine
    \/ main_complete

SpecFinish == InitFinish /\ [][NextFinish]_vars

-----------------------------------------------------------------------------
(* report_builder.py: main, steps 4 and 5 in a row: summarize_content, the *)
(* check of its result, and the context generate_report builds             *)

\* line 1922: summarize_content has returned its list to main; the locals of
\* its item loop are dead and are put back
main_summaries_returned ==
    /\ summ_pc = "done"
    /\ rep_pc = "idle"
    /\ rep_pc' = "main_check_summaries"
    /\ attempt' = 0
    /\ summary' = ErrUnknown
    /\ score' = -1
    /\ cleaned_response' = NoneVal
    /\ item_llm_calls' = 0
    /\ item_tag_absent' = 0
    /\ UNCHANGED <<summ_pc, scraped_content, reference_docs_content,
                   reference_docs_summarize, content_to_process, item_i,
                   summaries_with_scores>>
    /\ UNCHANGED <<repLocals, refine_started, final_report_path_to_show, run_status>>
    /\ UNCHANGED <<scrVars, dksVars, fnVars, aiVars, discVars, limVars, appVars>>

InitPipeline == InitSumm

NextPipeline ==
    \/ summarize_prepare
    \/ summarize_skip_short
    \/ summarize_begin_item
    \/ summarize_attempt
    \/ summarize_append
    \/ summarize_return
    \/ main_summaries_returned
    \/ main_check_summaries
    \/ generate_report_context

SpecPipeline == InitPipeline /\ [][NextPipeline]_vars

-----------------------------------------------------------------------------
(* Source identifiers, URLs, and what searches and fetches may return      *)

RA == <<"r", "/", "a">>
RedditUrlA == <<"https:", "/", "/", "reddit.com", "/", "r", "/", "a">>
XCom == <<"x.com">>
BadUrl == <<"http:", "/", "/", "[", "x">>
YCom == <<"y.com">>
UserLink == <<"https:", "/", "/", "old.", "reddit.com", "/", "user", "/", "b">>

\* URLs of the direct-articles file
DirectPool == {U1, RedditUrlA}

\* identifiers discover_sources may return
DiscoveredPool == {RA, XCom, YCom, BadUrl}

\* URL lists a search provider may return
WebResultLists == {<<>>, <<U1>>, <<U1, P1>>}

ProviderResults == {SNone, SQuota} \cup {SList(l) : l \in WebResultLists}

\* links on a subreddit search page, or the wait for them that fails
RedditSearchOutcomes ==
    {[raised |-> TRUE, hrefs |-> {}]}
        \cup {[raised |-> FALSE, hrefs |-> h] : h \in SUBSET {P1, UserLink}}

\* newspaper4k: the download or the parse raises, or a text of this length
WebFetchOutcomes ==
    {[raised |-> TRUE, len |-> 0]} \cup {[raised |-> FALSE, len |-> n] : n \in {150, 151}}

\* Selenium: the page load raises, or the combined content has this length;
\* the fixed frame of full_content with the permalink is longer than 100
RedditFetchOutcomes ==
    {[raised |-> TRUE, len |-> 0]} \cup {[raised |-> FALSE, len |-> n] : n \in {104, 160}}

\* list(a_set)[:limit]: the elements in any order, cut at limit
Orderings(S, limit) ==
    LET n == Min({limit, Cardinality(S)})
    IN  {q \in SeqsUpTo(S, n) :
            /\ Len(q) = n
            /\ \A a, b \in 1..n : a # b => q[a] # q[b]}

-----------------------------------------------------------------------------
(* report_builder.py: main, step 2                                         *)

\* str.rstrip('/')
RStripSlash(text) ==
    LET NonSl == {k \in 1..Len(text) : text[k] # "/"}
    IN  IF NonSl = {} THEN <<>> ELSE SubSeq(text, 1, Max(NonSl))

\* line 1879: src.strip().rstrip('/')
normalized_src(src) == RStripSlash(Strip(src))

\* item.startswith('r/') or 'reddit.com/r/' in item
is_reddit_source(item) ==
    StartsWith(item, <<"r", "/">>) \/ Contains(item, <<"reddit.com", "/", "r", "/">>)

NotRedditSource(src) == ~is_reddit_source(src)

\* lines 1876-1882: the first of the sources that normalise alike is kept
RECURSIVE unique_combined_sources(_, _)
unique_combined_sources(combined_sources, seen_sources) ==
    IF combined_sources = <<>> THEN <<>>
    ELSE LET src == Head(combined_sources)
         IN  IF normalized_src(src) \notin seen_sources
             THEN <<src>> \o unique_combined_sources(Tail(combined_sources),
                                                     seen_sources \cup {normalized_src(src)})
             ELSE unique_combined_sources(Tail(combined_sources), seen_sources)

\* lines 1860-1900: the list given to scrape_content
sources_for_scraping(direct, discovered, nosearch, noreddit) ==
    LET srcs == IF nosearch THEN direct
                ELSE unique_combined_sources(direct \o discovered, {})
    IN  IF noreddit /\ srcs # <<>> THEN SelectSeq(srcs, NotRedditSource) ELSE srcs

\* discover_sources is called whatever the option says
calls_discover_sources_always(nosearch) == TRUE

\* lines 1862-1874: discover_sources is called in the else branch of
\* `if args.no_search`
calls_discover_sources(nosearch) == ~nosearch

\* lines 1860-1911: discovery, combination, the --no-reddit filter; with no
\* source left the scraping phase is not entered
main_determine_sources ==
    /\ scr_pc = "main_sources"
    /\ discover_calls' = IF calls_discover_sources(no_search) THEN discover_calls + 1
                         ELSE discover_calls
    /\ \E discovered \in IF calls_discover_sources(no_search)
                          THEN SeqsUpTo(DiscoveredPool, MaxItems - Len(direct_article_urls))
                          ELSE {<<>>} :
         sources_or_urls' =
            sources_for_scraping(direct_article_urls, discovered, no_search, no_reddit)
    /\ scr_pc' = IF sources_or_urls' = <<>> THEN "skipped" ELSE "item"
    /\ UNCHANGED <<direct_article_urls, no_search, no_reddit, scr_i, scraped_data,
                   seen_urls_global, driver_open, redditLocals, webLocals, query_idx,
                   proc_idx, gw, fetch_log, dedup_hits, delays, itemHistory>>
    /\ UNCHANGED outsideScr

-----------------------------------------------------------------------------
(* functions/scraping/web.py and functions/scraping/content.py             *)

\* web.py line 32
web_min_length == 150

\* content.py line 652
reddit_min_length == 100

\* args.py line 56, the default of --max-web-results
max_web_results == 3

\* args.py line 57, the default of --max-reddit-results
max_reddit_results == 5

NoRecord == [none |-> TRUE, url |-> <<>>, content_len |-> 0]

\* an entry of the fetch history: the URL, the strategy that fetched it, what
\* the page gave and whether a record was produced
fetched(url, strategy, out, ok) ==
    [url |-> url, strategy |-> strategy, raised |-> out.raised, len |-> out.len, ok |-> ok]

\* any text is kept
scrape_website_url_keeps_any_text(url, out) ==
    IF ~out.raised /\ out.len > 0
    THEN [none |-> FALSE, url |-> url, content_len |-> out.len]
    ELSE NoRecord

\* web.py lines 15-64: a record, or None after any exception or a short text
scrape_website_url(url, out) ==
    IF ~out.raised /\ out.len > 0 /\ out.len > web_min_length
    THEN [none |-> FALSE, url |-> url, content_len |-> out.len]
    ELSE NoRecord

\* the dict appended to the result list
ContentRecord(r) == [url |-> r.url, content_len |-> r.content_len]

\* membership in the direct-URL set alone
is_direct_url_by_membership(item, direct_urls) ==
    \E k \in 1..Len(direct_urls) : direct_urls[k] = item

\* line 484
is_direct_url(item, direct_urls) ==
    (\E k \in 1..Len(direct_urls) : direct_urls[k] = item) /\ ~is_reddit_source(item)

\* line 485
is_website_source(item, direct_urls) ==
    ~is_reddit_source(item) /\ ~is_direct_url(item, direct_urls)

\* the dedup set is not consulted
already_scraped_never(url, seen) == FALSE

\* lines 492, 592, 788: `url in seen_urls_global`
already_scraped(url, seen) == url \in seen

\* the URL of a record is not remembered
seen_unchanged(seen, url, ok) == seen

\* lines 499-500, 656-657, 797-798: seen_urls_global.add(url) next to the append
seen_after_fetch(seen, url, ok) == IF ok THEN seen \cup {url} ELSE seen

\* str.replace(pat, '')
RECURSIVE RemoveAll(_, _)
RemoveAll(text, pat) ==
    IF text = <<>> THEN <<>>
    ELSE IF MatchAt(text, pat, 1)
         THEN RemoveAll(SubSeq(text, Len(pat) + 1, Len(text)), pat)
         ELSE <<Head(text)>> \o RemoveAll(Tail(text), pat)

\* str.split(sep)[0]
SplitFirst(text, sep) ==
    LET k == Find(text, <<sep>>, 1)
    IN  IF k = 0 THEN text ELSE SubSeq(text, 1, k - 1)

\* line 519: item.replace('r/', '').split('/')[0]
subreddit_name_of(item) == SplitFirst(RemoveAll(item, <<"r", "/">>), "/")

\* lines 564-566: a post link of the subreddit that is no user page
post_link_ok(href, name) ==
    /\ href # <<>>
    /\ Contains(href, <<"/", "comments", "/">>)
    /\ Contains(href, name)
    /\ ~Contains(href, <<"/", "user", "/">>)

\* `continue` in the item loop: the next item, without the code after the try
continue_item ==
    /\ scr_i' = scr_i + 1
    /\ scr_pc' = "item"

\* lines 478-501: an explicit direct URL
scrape_direct ==
    /\ scr_pc = "item"
    /\ scr_i <= Len(sources_or_urls)
    /\ is_direct_url(sources_or_urls[scr_i], direct_article_urls)
    /\ LET item == sources_or_urls[scr_i]
       IN  IF already_scraped(item, seen_urls_global)
           THEN /\ dedup_hits' = dedup_hits \cup {item}
                /\ continue_item
                /\ UNCHANGED <<scraped_data, seen_urls_global, fetch_log>>
           ELSE \E out \in WebFetchOutcomes :
                   LET scraped_text == scrape_website_url(item, out)
                   IN  /\ fetch_log' = Append(fetch_log,
                                              fetched(item, "article", out,
                                                      ~scraped_text.none))
                       /\ scraped_data' = IF scraped_text.none THEN scraped_data
                                          ELSE Append(scraped_data, ContentRecord(scraped_text))
                       /\ seen_urls_global' =
                             seen_after_fetch(seen_urls_global, item, ~scraped_text.none)
                       /\ scr_pc' = "finish_item"
                       /\ UNCHANGED <<scr_i, dedup_hits>>
    /\ routes' = routes \cup {<<scr_i, "direct">>}
    /\ UNCHANGED <<scrArgs, driver_open, redditLocals, webLocals, query_idx, proc_idx, gw,
                   delays, sessions_open, item_failures>>
    /\ UNCHANGED outsideScr

\* lines 504-535: the flags, the subreddit name and the Selenium session
scrape_reddit_start ==
    /\ scr_pc = "item"
    /\ scr_i <= Len(sources_or_urls)
    /\ ~is_direct_url(sources_or_urls[scr_i], direct_article_urls)
    /\ is_reddit_source(sources_or_urls[scr_i])
    /\ LET name == subreddit_name_of(sources_or_urls[scr_i])
       IN  IF no_reddit \/ no_search \/ name = <<>>
           THEN /\ continue_item
                /\ UNCHANGED <<driver_open, redditLocals, query_idx, sessions_open,
                               item_failures>>
           ELSE \E driver \in {"driver", "None"} :
                   IF driver = "None"
                   THEN /\ continue_item
                        /\ subreddit_name' = name
                        /\ item_failures' = item_failures \cup {<<scr_i, "no_driver">>}
                        /\ UNCHANGED <<driver_open, all_post_links_for_subreddit,
                                       links_to_scrape, reddit_data, query_idx,
                                       sessions_open>>
                   ELSE /\ driver_open' = TRUE
                        /\ sessions_open' = sessions_open + 1
                        /\ UNCHANGED item_failures
                        /\ subreddit_name' = name
                        /\ all_post_links_for_subreddit' = {}
                        /\ reddit_data' = <<>>
                        /\ query_idx' = 1
                        /\ scr_pc' = "reddit_search"
                        /\ UNCHANGED <<scr_i, links_to_scrape>>
    /\ routes' = routes \cup {<<scr_i, "reddit">>}
    /\ UNCHANGED <<scrArgs, scraped_data, seen_urls_global, webLocals, proc_idx, gw,
                   fetch_log, dedup_hits, delays>>
    /\ UNCHANGED outsideScr

\* lines 541-589: one search query of the subreddit; after the last one the
\* posts to visit are chosen
scrape_reddit_search ==
    /\ scr_pc = "reddit_search"
    /\ query_idx <= NumQueries
    /\ \E found \in RedditSearchOutcomes :
         all_post_links_for_subreddit' =
            IF found.raised THEN all_post_links_for_subreddit
            ELSE all_post_links_for_subreddit
                    \cup {h \in found.hrefs : post_link_ok(h, subreddit_name)}
    /\ query_idx' = query_idx + 1
    /\ IF query_idx = NumQueries
       THEN /\ links_to_scrape' \in Orderings(all_post_links_for_subreddit', max_reddit_results)
            /\ proc_idx' = 1
            /\ scr_pc' = "reddit_posts"
       ELSE UNCHANGED <<links_to_scrape, proc_idx, scr_pc>>
    /\ UNCHANGED <<scrArgs, scr_i, scraped_data, seen_urls_global, driver_open,
                   subreddit_name, reddit_data, webLocals, gw, fetch_log, dedup_hits, delays,
                   itemHistory>>
    /\ UNCHANGED outsideScr

\* lines 591-672: one post of links_to_scrape
scrape_reddit_post ==
    /\ scr_pc = "reddit_posts"
    /\ proc_idx <= Len(links_to_scrape)
    /\ LET post_url == links_to_scrape[proc_idx]
       IN  IF already_scraped(post_url, seen_urls_global)
           THEN /\ dedup_hits' = dedup_hits \cup {post_url}
                /\ UNCHANGED <<reddit_data, seen_urls_global, fetch_log>>
           ELSE \E out \in RedditFetchOutcomes :
                   LET ok == ~out.raised /\ out.len > reddit_min_length
                   IN  /\ fetch_log' = Append(fetch_log, fetched(post_url, "forum", out, ok))
                       /\ reddit_data' =
                             IF ok THEN Append(reddit_data,
                                               [url |-> post_url, content_len |-> out.len])
                             ELSE reddit_data
                       /\ seen_urls_global' = seen_after_fetch(seen_urls_global, post_url, ok)
                       /\ UNCHANGED dedup_hits
    /\ proc_idx' = proc_idx + 1
    /\ UNCHANGED <<scrArgs, scr_pc, scr_i, scraped_data, driver_open, subreddit_name,
                   all_post_links_for_subreddit, links_to_scrape, webLocals, query_idx, gw,
                   delays, itemHistory>>
    /\ UNCHANGED outsideScr

\* lines 540-672: an exception that leaves the inner try block: one raised
\* outside the try blocks of the queries and of the posts, or inside one of
\* their handlers
scrape_reddit_error ==
    /\ scr_pc \in {"reddit_search", "reddit_posts"}
    /\ scr_pc' = "reddit_except"
    /\ item_failures' = item_failures \cup {<<scr_i, "selenium_error">>}
    /\ UNCHANGED <<scrArgs, scr_i, scraped_data, seen_urls_global, driver_open, redditLocals,
                   webLocals, query_idx, proc_idx, gw, fetch_log, dedup_hits, delays,
                   sessions_open, routes>>
    /\ UNCHANGED outsideScr

\* a quit that sits at the end of the try block instead of in a finally clause
quits_on_normal_path(path) == path = "normal"

\* lines 679-683: the finally clause quits the session on both ways out of
\* the try block
quits_on(path) == path \in {"normal", "exception"}

\* an exception of an item is not caught in the loop and leaves scrape_content
item_exception_propagates == "raised"

\* lines 806-810: the except clause of the item loop; the code after the try
\* statement follows
item_exception_pc == "finish_item"

\* lines 674-685: the except and finally clauses of the Selenium block, then
\* the records of the item are added.  WebDriver.quit() ends the browser
\* session; when it raises, the exception reaches the except clause of the
\* item loop and line 685 is not run.
scrape_reddit_end ==
    /\ \/ scr_pc = "reddit_posts" /\ proc_idx > Len(links_to_scrape)
       \/ scr_pc = "reddit_except"
    /\ LET path == IF scr_pc = "reddit_except" THEN "exception" ELSE "normal"
       IN  IF quits_on(path)
           THEN /\ driver_open' = FALSE
                /\ sessions_open' = sessions_open - 1
                /\ \E quit_raises \in BOOLEAN :
                      IF quit_raises
                      THEN /\ item_failures' = item_failures \cup {<<scr_i, "exception">>}
                           /\ scr_pc' = item_exception_pc
                           /\ UNCHANGED scraped_data
                      ELSE /\ scraped_data' = scraped_data \o reddit_data
                           /\ scr_pc' = "finish_item"
                           /\ UNCHANGED item_failures
           ELSE /\ scraped_data' = scraped_data \o reddit_data
                /\ scr_pc' = "finish_item"
                /\ UNCHANGED <<driver_open, sessions_open, item_failures>>
    /\ UNCHANGED <<scrArgs, scr_i, seen_urls_global, redditLocals, webLocals, query_idx,
                   proc_idx, gw, fetch_log, dedup_hits, delays, routes>>
    /\ UNCHANGED outsideScr

\* line 728
quota_hit(api_results) == api_results.kind = "quota"

\* line 729
failed(api_results) == api_results.kind = "none"

\* an empty answer of the primary provider sends the query to the fallback too
gateway_calls_fallback_when_empty(api_results) ==
    api_results.kind # "list" \/ api_results.urls = <<>>

\* line 739: `if failed or quota_hit`
gateway_calls_fallback(api_results) == failed(api_results) \/ quota_hit(api_results)

\* the result of the primary provider is kept whatever the fallback answers
gateway_result_keeps_primary(api_results, api_results_fallback) ==
    IF api_results_fallback.kind = "list" THEN api_results_fallback ELSE api_results

\* lines 748-761: api_results after the fallback provider has answered
gateway_result(api_results, api_results_fallback) ==
    IF api_results_fallback.kind = "quota"
    THEN IF quota_hit(api_results) THEN SNone ELSE api_results
    ELSE IF api_results_fallback.kind = "none"
         THEN IF quota_hit(api_results) THEN SNone ELSE api_results
         ELSE api_results_fallback

\* lines 716-762: the calls of one query and the result selected
GatewayRuns ==
    {[primary |-> p, fallback_called |-> FALSE, fallback |-> SUnset, result |-> p] :
        p \in {q \in ProviderResults : ~gateway_calls_fallback(q)}}
    \cup
    {[primary |-> pf[1], fallback_called |-> TRUE, fallback |-> pf[2],
      result |-> gateway_result(pf[1], pf[2])] :
        pf \in {q \in ProviderResults : gateway_calls_fallback(q)} \X ProviderResults}

\* report_builder.py line 965: `if failed or quota_hit`
rb_gateway_calls_fallback(api_results) ==
    api_results.kind = "none" \/ api_results.kind = "quota"

\* report_builder.py lines 973-985: api_results after the fallback provider
\* has answered, in the copy of scrape_content that main calls
rb_gateway_result(api_results, api_results_fallback) ==
    IF api_results_fallback.kind = "quota"
    THEN IF api_results.kind = "quota" THEN SNone ELSE api_results
    ELSE IF api_results_fallback.kind = "none"
         THEN IF api_results.kind = "quota" THEN SNone ELSE api_results
         ELSE api_results_fallback

\* report_builder.py lines 948-985
RbGatewayRuns ==
    {[primary |-> p, fallback_called |-> FALSE, fallback |-> SUnset, result |-> p] :
        p \in {q \in ProviderResults : ~rb_gateway_calls_fallback(q)}}
    \cup
    {[primary |-> pf[1], fallback_called |-> TRUE, fallback |-> pf[2],
      result |-> rb_gateway_result(pf[1], pf[2])] :
        pf \in {q \in ProviderResults : rb_gateway_calls_fallback(q)} \X ProviderResults}

\* line 696: urllib.parse.urlparse raises ValueError('Invalid IPv6 URL') when
\* the network location has one square bracket without the other
urlparse_raises(item) ==
    /\ Contains(item, <<"/", "/">>)
    /\ Contains(item, <<"[">>) # Contains(item, <<"]">>)

\* lines 688-708: a website source
scrape_web_start ==
    /\ scr_pc = "item"
    /\ scr_i <= Len(sources_or_urls)
    /\ is_website_source(sources_or_urls[scr_i], direct_article_urls)
    /\ IF no_search
       THEN /\ continue_item
            /\ UNCHANGED <<urls_to_scrape_for_domain, query_idx, item_failures>>
       ELSE IF urlparse_raises(sources_or_urls[scr_i])
       THEN /\ item_failures' = item_failures \cup {<<scr_i, "exception">>}
            /\ scr_pc' = item_exception_pc
            /\ UNCHANGED <<scr_i, urls_to_scrape_for_domain, query_idx>>
       ELSE /\ urls_to_scrape_for_domain' = {}
            /\ query_idx' = 1
            /\ scr_pc' = "web_search"
            /\ UNCHANGED <<scr_i, item_failures>>
    /\ routes' = routes \cup {<<scr_i, "website">>}
    /\ UNCHANGED <<scrArgs, scraped_data, seen_urls_global, driver_open, redditLocals,
                   urls_to_process, proc_idx, gw, fetch_log, dedup_hits, delays,
                   sessions_open>>
    /\ UNCHANGED outsideScr

\* lines 710-785: one search query of the domain through the gateway; after
\* the last one the URLs to fetch are chosen
scrape_web_search ==
    /\ scr_pc = "web_search"
    /\ query_idx <= NumQueries
    /\ \E run \in GatewayRuns :
         /\ gw' = run
         /\ LET found == IF run.result.kind = "list"
                         THEN {run.result.urls[k] : k \in 1..Len(run.result.urls)}
                         ELSE {}
            IN  /\ urls_to_scrape_for_domain' =
                      urls_to_scrape_for_domain
                         \cup {url \in found : ~already_scraped(url, seen_urls_global)}
                /\ dedup_hits' =
                      dedup_hits \cup {url \in found : already_scraped(url, seen_urls_global)}
    /\ query_idx' = query_idx + 1
    /\ IF query_idx = NumQueries
       THEN /\ urls_to_process' \in Orderings(urls_to_scrape_for_domain', max_web_results)
            /\ proc_idx' = 1
            /\ scr_pc' = "web_fetch"
       ELSE UNCHANGED <<urls_to_process, proc_idx, scr_pc>>
    /\ UNCHANGED <<scrArgs, scr_i, scraped_data, seen_urls_global, driver_open, redditLocals,
                   fetch_log, delays, itemHistory>>
    /\ UNCHANGED outsideScr

\* lines 787-800: one URL of urls_to_process
scrape_web_fetch ==
    /\ scr_pc = "web_fetch"
    /\ proc_idx <= Len(urls_to_process)
    /\ LET url == urls_to_process[proc_idx]
       IN  IF already_scraped(url, seen_urls_global)
           THEN /\ dedup_hits' = dedup_hits \cup {url}
                /\ UNCHANGED <<scraped_data, seen_urls_global, fetch_log>>
           ELSE \E out \in WebFetchOutcomes :
                   LET scraped_text == scrape_website_url(url, out)
                   IN  /\ fetch_log' = Append(fetch_log,
                                              fetched(url, "article", out,
                                                      ~scraped_text.none))
                       /\ scraped_data' = IF scraped_text.none THEN scraped_data
                                          ELSE Append(scraped_data, ContentRecord(scraped_text))
                       /\ seen_urls_global' =
                             seen_after_fetch(seen_urls_global, url, ~scraped_text.none)
                       /\ UNCHANGED dedup_hits
    /\ proc_idx' = proc_idx + 1
    /\ UNCHANGED <<scrArgs, scr_pc, scr_i, driver_open, redditLocals, webLocals, query_idx,
                   gw, delays, itemHistory>>
    /\ UNCHANGED outsideScr

\* line 800: urls_to_process is exhausted
scrape_web_end ==
    /\ scr_pc = "web_fetch"
    /\ proc_idx > Len(urls_to_process)
    /\ scr_pc' = "finish_item"
    /\ UNCHANGED <<scrArgs, scr_i, scraped_data, seen_urls_global, driver_open, redditLocals,
                   webLocals, query_idx, proc_idx, gw, fetch_log, dedup_hits, delays,
                   itemHistory>>
    /\ UNCHANGED outsideScr

\* lines 812-818: the end of an iteration, with the delay before the next
\* item; the locals of the finished item are dead and are put back
scrape_finish_item ==
    /\ scr_pc = "finish_item"
    /\ delays' = IF scr_i < Len(sources_or_urls) THEN delays \cup {scr_i} ELSE delays
    /\ scr_i' = scr_i + 1
    /\ scr_pc' = "item"
    /\ subreddit_name' = <<>>
    /\ all_post_links_for_subreddit' = {}
    /\ links_to_scrape' = <<>>
    /\ reddit_data' = <<>>
    /\ urls_to_scrape_for_domain' = {}
    /\ urls_to_process' = <<>>
    /\ query_idx' = 1
    /\ proc_idx' = 1
    /\ gw' = NoGw
    /\ UNCHANGED <<scrArgs, scraped_data, seen_urls_global, driver_open, fetch_log,
                   dedup_hits, itemHistory>>
    /\ UNCHANGED outsideScr

\* lines 820-822: the item loop is exhausted
scrape_return ==
    /\ scr_pc = "item"
    /\ scr_i > Len(sources_or_urls)
    /\ scr_pc' = "done"
    /\ UNCHANGED <<scrArgs, scr_i, scraped_data, seen_urls_global, driver_open, redditLocals,
                   webLocals, query_idx, proc_idx, gw, fetch_log, dedup_hits, delays,
                   itemHistory>>
    /\ UNCHANGED outsideScr

-----------------------------------------------------------------------------
(* functions/search/discovery.py: perform_direct_keyword_search            *)

\* discovery.py line 156
dks_quota_hit(api_results) == api_results.kind = "quota"

\* discovery.py line 157
dks_failed(api_results) == api_results.kind = "none"

\* discovery.py line 167: `if failed or quota_hit`
dks_calls_fallback(api_results) == dks_failed(api_results) \/ dks_quota_hit(api_results)

\* the answer of the primary provider is kept when the fallback gives no list
dks_result_keeps_primary(api_results, api_results_fallback) ==
    IF api_results_fallback.kind = "list" THEN api_results_fallback ELSE api_results

\* discovery.py lines 175-186
dks_result(api_results, api_results_fallback) ==
    IF api_results_fallback.kind = "quota"
    THEN IF dks_quota_hit(api_results) THEN SNone ELSE api_results
    ELSE IF api_results_fallback.kind = "none"
         THEN IF dks_quota_hit(api_results) THEN SNone ELSE api_results
         ELSE api_results_fallback

\* discovery.py lines 144-186
DksGatewayRuns ==
    {[primary |-> p, fallback_called |-> FALSE, fallback |-> SUnset, result |-> p] :
        p \in {q \in ProviderResults : ~dks_calls_fallback(q)}}
    \cup
    {[primary |-> pf[1], fallback_called |-> TRUE, fallback |-> pf[2],
      result |-> dks_result(pf[1], pf[2])] :
        pf \in {q \in ProviderResults : dks_calls_fallback(q)} \X ProviderResults}

\* discovery.py lines 136-199: one keyword; a blank keyword is passed over
dks_search_keyword ==
    /\ dks_pc = "keyword"
    /\ keyword_idx <= Len(keywords_list)
    /\ IF Strip(keywords_list[keyword_idx]) = <<>>
       THEN UNCHANGED <<all_found_urls, dks_gw>>
       ELSE \E run \in DksGatewayRuns :
               /\ dks_gw' = run
               /\ all_found_urls' =
                     IF run.result.kind = "list"
                     THEN all_found_urls
                             \cup {run.result.urls[k] : k \in 1..Len(run.result.urls)}
                     ELSE all_found_urls
    /\ keyword_idx' = keyword_idx + 1
    /\ UNCHANGED <<dks_pc, keywords_list>>
    /\ UNCHANGED outsideDks

\* discovery.py lines 201-206
dks_return ==
    /\ dks_pc = "keyword"
    /\ keyword_idx > Len(keywords_list)
    /\ dks_pc' = "done"
    /\ UNCHANGED <<keywords_list, keyword_idx, all_found_urls, dks_gw>>
    /\ UNCHANGED outsideDks

-----------------------------------------------------------------------------
(* The scraping phase of a run, or one call of the keyword search          *)

ScrLocalsInit ==
    /\ sources_or_urls = <<>>
    /\ discover_calls = 0
    /\ scr_i = 1
    /\ scraped_data = <<>>
    /\ seen_urls_global = {}
    /\ driver_open = FALSE
    /\ subreddit_name = <<>>
    /\ all_post_links_for_subreddit = {}
    /\ links_to_scrape = <<>>
    /\ reddit_data = <<>>
    /\ urls_to_scrape_for_domain = {}
    /\ urls_to_process = <<>>
    /\ query_idx = 1
    /\ proc_idx = 1
    /\ gw = NoGw
    /\ fetch_log = <<>>
    /\ dedup_hits = {}
    /\ delays = {}
    /\ sessions_open = 0
    /\ routes = {}
    /\ item_failures = {}

\* main before step 2, the direct-articles file loaded
InitScrapeContent ==
    /\ scr_pc = "main_sources"
    /\ direct_article_urls \in SeqsUpTo(DirectPool, MaxItems)
    /\ no_search \in BOOLEAN
    /\ no_reddit \in BOOLEAN
    /\ ScrLocalsInit
    /\ DksIdle

KeywordPool == {<<"k">>, <<" ">>}

\* perform_direct_keyword_search is entered
InitKeywordSearch ==
    /\ dks_pc = "keyword"
    /\ keywords_list \in SeqsUpTo(KeywordPool, NumQueries)
    /\ keyword_idx = 1
    /\ all_found_urls = {}
    /\ dks_gw = NoGw
    /\ ScrIdle

InitScrape ==
    /\ FnIdle
    /\ SummIdle
    /\ summaries_with_scores = <<>>
    /\ reference_docs_content = <<>>
    /\ reference_docs_summarize = FALSE
    /\ RepIdle
    /\ InitScrapeContent \/ InitKeywordSearch

NextScrape ==
    \/ main_determine_sources
    \/ scrape_direct
    \/ scrape_reddit_start
    \/ scrape_reddit_search
    \/ scrape_reddit_post
    \/ scrape_reddit_error
    \/ scrape_reddit_end
    \/ scrape_web_start
    \/ scrape_web_search
    \/ scrape_web_fetch
    \/ scrape_web_end
    \/ scrape_finish_item
    \/ scrape_return
    \/ dks_search_keyword
    \/ dks_return

SpecScrape == InitScrape /\ [][NextScrape]_vars

-----------------------------------------------------------------------------
(* report_builder.py: main from step 2 to the exit, for a run that scrapes *)
(* the URLs of the direct-articles file only (--no-search)                 *)

\* main goes on while scrape_content is still in its item loop
scrape_content_returned_early(pc) == pc \in {"item", "done", "skipped"}

\* line 1905: the call of scrape_content has returned, or line 1912: it was
\* not made
scrape_content_returned(pc) == pc \in {"done", "skipped"}

\* lines 1906 and 1916: `not scraped_content and not reference_docs_content`
nothing_to_summarize(scraped, docs) == scraped = <<>> /\ docs = <<>>

\* lines 1902-1920: scrape_content has returned, or was not called for want
\* of sources; RuntimeError when there is nothing to summarize, else
\* summarize_content is called with the scraped records
main_scrape_returned ==
    /\ scrape_content_returned(scr_pc)
    /\ summ_pc = "idle"
    /\ rep_pc = "idle"
    /\ scr_pc' = "returned"
    /\ IF nothing_to_summarize(scraped_data, reference_docs_content)
       THEN /\ main_fatal
            /\ UNCHANGED <<summ_pc, scraped_content>>
       ELSE /\ scraped_content' = scraped_data
            /\ summ_pc' = "prepare"
            /\ UNCHANGED <<rep_pc, run_status>>
    /\ UNCHANGED <<reference_docs_content, reference_docs_summarize, content_to_process,
                   item_i, attempt, summary, score, cleaned_response,
                   summaries_with_scores, item_llm_calls, item_tag_absent>>
    /\ UNCHANGED <<repLocals, refine_started, final_report_path_to_show>>
    /\ UNCHANGED <<scrArgs, scr_i, scraped_data, seen_urls_global, driver_open, redditLocals,
                   webLocals, query_idx, proc_idx, gw, fetch_log, dedup_hits, delays,
                   itemHistory>>
    /\ UNCHANGED <<dksVars, fnVars, aiVars, discVars, limVars, appVars>>

\* the runs followed: the direct-articles file is empty or holds one URL,
\* with and without --skip-refinement, or it holds two URLs, a reference
\* document too short for a summary may be loaded with
\* --reference-docs-summarize, and the refinement is skipped
RunInputs ==
    {[urls |-> u, skip |-> s, docs |-> <<>>] : u \in {<<>>, <<U1>>}, s \in BOOLEAN}
        \cup {[urls |-> <<U1, U2>>, skip |-> TRUE, docs |-> d] :
                 d \in {<<>>, <<[path |-> Doc1, content_len |-> 50]>>}}

InitRun ==
    /\ FnIdle
    /\ DksIdle
    /\ SummIdle
    /\ summaries_with_scores = <<>>
    /\ rep_pc = "idle"
    /\ score_threshold = 5
    /\ RepLocalsInit
    /\ scr_pc = "main_sources"
    /\ \E input \in RunInputs :
          /\ direct_article_urls = input.urls
          /\ skip_refinement = input.skip
          /\ reference_docs_content = input.docs
          /\ reference_docs_summarize = (input.docs # <<>>)
    /\ no_search = TRUE
    /\ no_reddit = FALSE
    /\ ScrLocalsInit

NextRun ==
    \/ main_determine_sources
    \/ scrape_direct
    \/ scrape_finish_item
    \/ scrape_return
    \/ main_scrape_returned
    \/ summarize_prepare
    \/ summarize_skip_short
    \/ summarize_begin_item
    \/ summarize_attempt
    \/ summarize_append
    \/ summarize_return
    \/ main_summaries_returned
    \/ main_check_summaries
    \/ generate_report_context
    \/ generate_report_call
    \/ generate_report_parse
    \/ generate_report_save
    \/ main_after_generate
    \/ main_refine
    \/ refine_report_call
    \/ refine_report_parse
    \/ refine_report_save
    \/ main_after_refine
    \/ main_complete

SpecRun == InitRun /\ [][NextRun]_vars

-----------------------------------------------------------------------------
(* functions/utils.py called on its own: clean_thinking_tags and           *)
(* parse_ai_tool_response applied to texts built from a few pieces         *)

MaxChunks == 4

\* an open think delimiter with an empty think span in its middle:
\* <<think></think>think>
SplitOpenThink ==
    <<"<">> \o OpenTag("think") \o CloseTag("think") \o <<"think", ">">>

\* the pieces texts are built from: think delimiters in both letter cases,
\* foo delimiters in both letter cases, a word, a blank, U+0130
Chunks ==
    { OpenTag("THINK"), CloseTag("think"), SplitOpenThink,
      OpenTag("foo"), OpenTag("FOO"), CloseTag("foo"),
      <<"W">>, <<" ">>, <<"I-dot">> }

\* ''.join(pieces)
RECURSIVE Join(_)
Join(pieces) == IF pieces = <<>> THEN <<>> ELSE Head(pieces) \o Join(Tail(pieces))

\* the texts of at most MaxChunks pieces
ChunkTexts == {Join(q) : q \in SeqsUpTo(Chunks, MaxChunks)}

\* the arguments: None or a text
FnInputs == {NoneVal} \cup {Str(t) : t \in ChunkTexts}

InitUtils ==
    /\ ai_pc = "idle"
    /\ ai_config = "ok"
    /\ ai_timeout = 300
    /\ ai_posts = <<>>
    /\ ai_sleeps = <<>>
    /\ ai_result = NoneVal
    /\ DiscIdle
    /\ LimIdle
    /\ AppIdle
    /\ SummIdle
    /\ summaries_with_scores = <<>>
    /\ reference_docs_content = <<>>
    /\ reference_docs_summarize = FALSE
    /\ RepIdle
    /\ ScrIdle
    /\ DksIdle
    /\ fn_pc = "input"
    /\ fn_text \in FnInputs
    /\ fn_result = <<>>
    /\ fn_again = <<>>
    /\ clean_prev_text = <<>>
    /\ clean_current_text = <<>>

\* utils.py 32-40: clean_thinking_tags(text), then once more on its result
call_clean_thinking_tags ==
    /\ fn_pc = "input"
    /\ fn_result' = clean_thinking_tags(fn_text)
    /\ fn_again' = clean_thinking_tags(Str(fn_result'))
    /\ fn_pc' = "cleaned"
    /\ UNCHANGED <<fn_text, clean_prev_text, clean_current_text>>
    /\ UNCHANGED outsideFn

\* utils.py 42-77: parse_ai_tool_response(text, 'foo')
call_parse_ai_tool_response ==
    /\ fn_pc = "input"
    /\ fn_result' = parse_ai_tool_response(fn_text, "foo")
    /\ fn_pc' = "parsed"
    /\ UNCHANGED <<fn_text, fn_again, clean_prev_text, clean_current_text>>
    /\ UNCHANGED outsideFn

\* utils.py 42-77: parse_ai_tool_response('<foo>' + text + '</foo>', 'foo')
call_parse_wrapped ==
    /\ fn_pc = "input"
    /\ ~fn_text.none
    /\ fn_result' =
          parse_ai_tool_response(Str(OpenTag("foo") \o fn_text.text \o CloseTag("foo")), "foo")
    /\ fn_pc' = "wrapped"
    /\ UNCHANGED <<fn_text, fn_again, clean_prev_text, clean_current_text>>
    /\ UNCHANGED outsideFn

NextUtils ==
    \/ call_clean_thinking_tags
    \/ call_parse_ai_tool_response
    \/ call_parse_wrapped

SpecUtils == InitUtils /\ [][NextUtils]_vars

-----------------------------------------------------------------------------
(* functions/ai.py: call_ai_api followed POST by POST                      *)

\* what the selected model configuration can lack (lines 15-29, 55-58)
AiConfigs == {"ok", "no_model_config", "no_api_key", "no_model"}

\* the timeouts of the callers: summarization.py 120, the default of line 10,
\* report_generation.py 447 and 82
AiTimeouts == {180, 300, 1200, 3000}

\* HTTP status codes an endpoint answers with
OkStatuses == {200, 201}
ErrorStatuses == {400, 401, 404, 429, 500, 503}

\* the content field of well-formed answers
AiContents == {<<"w">>, ThinkSpan, ThinkSpan \o <<"w">>, <<>>}

\* what requests.post and the reading of its answer come to: no answer
\* (timeout, connection error), an answer with an error status, an answer
\* whose body is not the expected JSON, a well-formed answer
PostAnswers ==
    {[kind |-> k, status |-> 0, content |-> <<>>] : k \in {"timeout", "connection_error"}}
    \cup {[kind |-> "http", status |-> c, content |-> <<>>] : c \in ErrorStatuses}
    \cup {[kind |-> "malformed", status |-> c, content |-> <<>>] : c \in OkStatuses}
    \cup {[kind |-> "message", status |-> c, content |-> m] : c \in OkStatuses, m \in AiContents}

\* line 70: response.raise_for_status() raises HTTPError
raises_http_error(answer) == answer.kind = "http" /\ answer.status >= 400

\* every HTTP error is tried again
retries_on_any_error(status_code) == status_code >= 400

\* line 98: `if e.response.status_code == 429`
retries_on(status_code) == status_code = 429

\* line 99
wait_time == 61

\* lines 72-82, 107-115: the pair returned for an answer that came without
\* an exception, (None, None) from the handlers for every other one
ai_return_value(answer) ==
    IF answer.kind = "message" THEN Str(clean_thinking_tags(Str(answer.content)))
    ELSE NoneVal

InitAi ==
    /\ SummIdle
    /\ summaries_with_scores = <<>>
    /\ reference_docs_content = <<>>
    /\ reference_docs_summarize = FALSE
    /\ RepIdle
    /\ ScrIdle
    /\ DksIdle
    /\ fn_pc = "idle"
    /\ fn_text = NoneVal
    /\ fn_result = <<>>
    /\ fn_again = <<>>
    /\ clean_prev_text = <<>>
    /\ clean_current_text = <<>>
    /\ DiscIdle
    /\ LimIdle
    /\ AppIdle
    /\ ai_pc = "config"
    /\ ai_config \in AiConfigs
    /\ ai_timeout \in AiTimeouts
    /\ ai_posts = <<>>
    /\ ai_sleeps = <<>>
    /\ ai_result = NoneVal

\* lines 15-60: the configuration is looked at and the payload is built
call_ai_api_prepare ==
    /\ ai_pc = "config"
    /\ ai_pc' = IF ai_config = "ok" THEN "post" ELSE "returned"
    /\ UNCHANGED <<ai_config, ai_timeout, ai_posts, ai_sleeps, ai_result>>
    /\ UNCHANGED outsideAi

\* lines 62-147 without the retry: the first POST, its answer read or its
\* exception handled
call_ai_api_post ==
    /\ ai_pc = "post"
    /\ \E answer \in PostAnswers :
         /\ ai_posts' = Append(ai_posts, answer)
         /\ IF raises_http_error(answer) /\ retries_on(answer.status)
            THEN /\ ai_pc' = "retry"
                 /\ ai_sleeps' = Append(ai_sleeps, wait_time)
                 /\ UNCHANGED ai_result
            ELSE /\ ai_pc' = "returned"
                 /\ ai_result' = ai_return_value(answer)
                 /\ UNCHANGED ai_sleeps
    /\ UNCHANGED <<ai_config, ai_timeout>>
    /\ UNCHANGED outsideAi

\* lines 103-130: the one retry after the wait
call_ai_api_retry ==
    /\ ai_pc = "retry"
    /\ \E answer \in PostAnswers :
         /\ ai_posts' = Append(ai_posts, answer)
         /\ ai_result' = ai_return_value(answer)
    /\ ai_pc' = "returned"
    /\ UNCHANGED <<ai_config, ai_timeout, ai_sleeps>>
    /\ UNCHANGED outsideAi

NextAi ==
    \/ call_ai_api_prepare
    \/ call_ai_api_post
    \/ call_ai_api_retry

SpecAi == InitAi /\ [][NextAi]_vars

-----------------------------------------------------------------------------
(* functions/search/discovery.py: discover_sources                         *)

\* the most lines between the tags of a response
MaxLines == 2

\* '.' in a text: the symbols that hold a dot
DottedSyms == {"x.com", "y.com", "reddit.com", "old."}
HasDot(text) == \E k \in 1..Len(text) : text[k] \in DottedSyms

Https == <<"https:", "/", "/">>
Http == <<"http:", "/", "/">>

YPage == <<"https:", "/", "/", "y.com", "/", "p">>
XComNote == <<"x.com", " ", "(", "news", ")">>
Junk == <<"junk">>

\* lines an LLM may write between the tags
DiscLines == {RA, XCom, XComNote, YPage, RedditUrlA, BadUrl, Junk}

\* '\n'.join(lines)
RECURSIVE JoinLines(_)
JoinLines(lines) ==
    IF lines = <<>> THEN <<>>
    ELSE IF Len(lines) = 1 THEN Head(lines)
    ELSE Head(lines) \o <<"\n">> \o JoinLines(Tail(lines))

\* a response that follows the format of the prompt
Tagged(tag, lines) ==
    OpenTag(tag) \o <<"\n">> \o JoinLines(lines) \o <<"\n">> \o CloseTag(tag)

\* cleaned responses call_ai_api may hand back: None after a failure, an empty
\* text, lines between the tags, and texts that miss a tag
DiscReplies ==
    {NoneVal, Str(<<>>), Str(XCom), Str(OpenTag("toolWebsites") \o XCom),
     Str(XCom \o CloseTag("toolWebsites")),
     Str(<<"I-dot">> \o Tagged("toolWebsites", <<XCom>>))}
        \cup {Str(Tagged("toolWebsites", q)) : q \in SeqsUpTo(DiscLines, MaxLines)}
        \cup {Str(Tagged("TOOLWEBSITES", <<l>>)) : l \in {RA, YPage}}

\* str.split('\n')
RECURSIVE SplitLines(_)
SplitLines(text) ==
    LET nl == Find(text, <<"\n">>, 1)
    IN  IF nl = 0 THEN <<text>>
        ELSE <<SubSeq(text, 1, nl - 1)>> \o SplitLines(SubSeq(text, nl + 1, Len(text)))

\* re.sub(r'\s*\(.*\)\s*$', '', line): the leftmost "(" that a ")" follows
\* with only blanks after it is cut with the blanks before it and the rest
ReSubTrailingParen(line) ==
    LET stripped_end == IF Strip(line) = <<>> THEN 0
                        ELSE Max({i \in 1..Len(line) : ~IsSpace(line[i])})
        opens == {i \in 1..Len(line) :
                    line[i] = "(" /\ stripped_end > i /\ line[stripped_end] = ")"}
    IN  IF opens = {} THEN line
        ELSE LET o == Min(opens)
                 before == {i \in 1..(o - 1) : ~IsSpace(line[i])}
             IN  IF before = {} THEN <<>> ELSE SubSeq(line, 1, Max(before))

\* cleaned_line.startswith(('http://', 'https://', 'r/'))
HasSourcePrefix(line) ==
    StartsWith(line, Http) \/ StartsWith(line, Https) \/ StartsWith(line, <<"r", "/">>)

\* lines 50-60: the candidate one line gives, <<>> when the line is ignored
candidate_of(line) ==
    LET cleaned_line == Strip(ReSubTrailingParen(line))
        with_scheme == IF HasDot(cleaned_line) /\ ~HasSourcePrefix(cleaned_line)
                       THEN Https \o cleaned_line ELSE cleaned_line
    IN  IF cleaned_line # <<>> /\ HasSourcePrefix(with_scheme) THEN <<with_scheme>> ELSE <<>>

\* lines 47-60: the candidates of the text between the tags
RECURSIVE candidates_of(_)
candidates_of(lines) ==
    IF lines = <<>> THEN <<>>
    ELSE (IF Strip(Head(lines)) = <<>> THEN <<>> ELSE candidate_of(Strip(Head(lines))))
            \o candidates_of(Tail(lines))

\* the text between the tags is taken whenever the parser returns a text
tag_not_extracted_when_empty(sources_str, cleaned) == sources_str = <<>>

\* line 43: not sources_str or sources_str == cleaned_response
tag_not_extracted(sources_str, cleaned) == sources_str = <<>> \/ sources_str = cleaned

\* lines 37-60: the candidates of a cleaned response
extracted_sources(cleaned) ==
    IF Falsy(cleaned) THEN <<>>
    ELSE LET sources_str == parse_ai_tool_response(cleaned, "toolWebsites")
         IN  IF tag_not_extracted(sources_str, cleaned.text) THEN <<>>
             ELSE candidates_of(SplitLines(sources_str))

\* line 82: scheme://netloc/ of a URL whose network location follows "//"
base_url(source) ==
    LET rest == SubSeq(source, 4, Len(source))
        slash == Find(rest, <<"/">>, 1)
    IN  SubSeq(source, 1, 3) \o (IF slash = 0 THEN rest ELSE SubSeq(rest, 1, slash - 1))
            \o <<"/">>

\* what requests.head may give: a status after redirects, or an exception
HeadOutcomes ==
    {[kind |-> "status", status |-> c] : c \in {200, 399, 400, 404, 503}}
        \cup {[kind |-> k, status |-> 0] : k \in {"timeout", "connection_error"}}

\* every answer is accepted
head_accepts_any_status(status_code) == status_code < 600

\* line 87
head_accepts(status_code) == status_code < 400

\* the arguments
InitDiscover ==
    /\ disc_pc = "start"
    /\ disc_no_reddit \in BOOLEAN
    /\ disc_llm_calls = <<>>
    /\ sources_list = <<>>
    /\ disc_k = 1
    /\ validated_sources = <<>>
    /\ disc_checks = <<>>
    /\ disc_result = <<>>
    /\ SummIdle
    /\ summaries_with_scores = <<>>
    /\ reference_docs_content = <<>>
    /\ reference_docs_summarize = FALSE
    /\ RepIdle
    /\ ScrIdle
    /\ DksIdle
    /\ fn_pc = "idle"
    /\ fn_text = NoneVal
    /\ fn_result = <<>>
    /\ fn_again = <<>>
    /\ clean_prev_text = <<>>
    /\ clean_current_text = <<>>
    /\ ai_pc = "idle"
    /\ ai_config = "ok"
    /\ ai_timeout = 300
    /\ ai_posts = <<>>
    /\ ai_sleeps = <<>>
    /\ ai_result = NoneVal
    /\ LimIdle
    /\ AppIdle

\* lines 37-64: the LLM call, the extraction of the candidates, and the
\* return of [] when nothing is left to validate
discover_sources_call ==
    /\ disc_pc = "start"
    /\ \E cleaned \in DiscReplies :
         /\ disc_llm_calls' = Append(disc_llm_calls, cleaned)
         /\ sources_list' = extracted_sources(cleaned)
    /\ disc_pc' = IF sources_list' = <<>> THEN "returned" ELSE "validate"
    /\ UNCHANGED <<disc_no_reddit, disc_k, validated_sources, disc_checks, disc_result>>
    /\ UNCHANGED outsideDisc

\* lines 69-111: one turn of the validation loop
discover_sources_validate ==
    /\ disc_pc = "validate"
    /\ disc_k <= Len(sources_list)
    /\ LET source == sources_list[disc_k]
       IN  \E check \in
             IF StartsWith(source, <<"r", "/">>)
             THEN {[source |-> source, target |-> <<>>, kind |-> "subreddit", status |-> 0]}
             ELSE IF urlparse_raises(source)
             THEN {[source |-> source, target |-> <<>>, kind |-> "exception", status |-> 0]}
             ELSE {[source |-> source, target |-> base_url(source), kind |-> o.kind,
                    status |-> o.status] : o \in HeadOutcomes} :
             /\ disc_checks' = Append(disc_checks, check)
             /\ validated_sources' =
                  IF check.kind = "subreddit"
                        \/ (check.kind = "status" /\ head_accepts(check.status))
                  THEN Append(validated_sources, source) ELSE validated_sources
    /\ disc_k' = disc_k + 1
    /\ UNCHANGED <<disc_pc, disc_no_reddit, disc_llm_calls, sources_list, disc_result>>
    /\ UNCHANGED outsideDisc

\* lines 113-123: the --no-reddit filter and the return
discover_sources_return ==
    /\ disc_pc = "validate"
    /\ disc_k > Len(sources_list)
    /\ disc_result' = IF disc_no_reddit THEN SelectSeq(validated_sources, NotRedditSource)
                      ELSE validated_sources
    /\ disc_pc' = "returned"
    /\ UNCHANGED <<disc_no_reddit, disc_llm_calls, sources_list, disc_k,
                   validated_sources, disc_checks>>
    /\ UNCHANGED outsideDisc

NextDiscover ==
    \/ discover_sources_call
    \/ discover_sources_validate
    \/ discover_sources_return

SpecDiscover == InitDiscover /\ [][NextDiscover]_vars

-----------------------------------------------------------------------------
(* functions/scraping/content.py: the loops of scrape_content that a       *)
(* command-line limit caps, each followed on its own                       *)

\* the most elements one item finds
MaxFound == 3

\* values of --max-web-results, --max-reddit-results and --max-reddit-comments:
\* argparse takes any int
LimitArgs == {-1, 0, 1, 2}

\* a URL or post link is in seen_urls_global or not; a comment paragraph has
\* a text, is empty, or is the placeholder of a deleted comment
ElementsOf(kind) ==
    IF kind = "comments" THEN {"text", "empty", "[deleted]"} ELSE {"new", "seen"}

\* list[:limit] of Python: a negative limit counts from the end
PySlicePrefix(list, limit) ==
    LET n == Len(list)
        stop == IF limit < 0 THEN (IF n + limit < 0 THEN 0 ELSE n + limit)
                ELSE (IF limit > n THEN n ELSE limit)
    IN  SubSeq(list, 1, stop)

InitLimits ==
    /\ lim_pc = "found"
    /\ lim_kind \in {"website", "reddit", "comments"}
    /\ limit_arg \in LimitArgs
    /\ lim_found \in SeqsUpTo(ElementsOf(lim_kind), MaxFound)
    /\ lim_selected = <<>>
    /\ lim_idx = 1
    /\ lim_count = 0
    /\ SummIdle
    /\ summaries_with_scores = <<>>
    /\ reference_docs_content = <<>>
    /\ reference_docs_summarize = FALSE
    /\ RepIdle
    /\ ScrIdle
    /\ DksIdle
    /\ fn_pc = "idle"
    /\ fn_text = NoneVal
    /\ fn_result = <<>>
    /\ fn_again = <<>>
    /\ clean_prev_text = <<>>
    /\ clean_current_text = <<>>
    /\ ai_pc = "idle"
    /\ ai_config = "ok"
    /\ ai_timeout = 300
    /\ ai_posts = <<>>
    /\ ai_sleeps = <<>>
    /\ ai_result = NoneVal
    /\ DiscIdle
    /\ AppIdle

\* lines 582-585 and 780-783: the unique links or URLs of the item, cut at
\* source_scrape_limit
apply_source_limit ==
    /\ lim_pc = "found"
    /\ lim_kind \in {"website", "reddit"}
    /\ lim_selected' = PySlicePrefix(lim_found, limit_arg)
    /\ lim_pc' = "loop"
    /\ UNCHANGED <<lim_kind, limit_arg, lim_found, lim_idx, lim_count>>
    /\ UNCHANGED outsideLim

\* lines 591-601 and 787-794: one turn of the loop over the cut list; a URL
\* of seen_urls_global is skipped, any other is fetched (website) or visited
\* (Reddit post)
fetch_or_visit_next ==
    /\ lim_pc = "loop"
    /\ lim_kind \in {"website", "reddit"}
    /\ lim_idx <= Len(lim_selected)
    /\ lim_count' = IF lim_selected[lim_idx] = "seen" THEN lim_count ELSE lim_count + 1
    /\ lim_idx' = lim_idx + 1
    /\ UNCHANGED <<lim_pc, lim_kind, limit_arg, lim_found, lim_selected>>
    /\ UNCHANGED outsideLim

\* lines 625-630: the comment paragraphs of the post page
comments_found ==
    /\ lim_pc = "found"
    /\ lim_kind = "comments"
    /\ lim_selected' = lim_found
    /\ lim_pc' = "loop"
    /\ UNCHANGED <<lim_kind, limit_arg, lim_found, lim_idx, lim_count>>
    /\ UNCHANGED outsideLim

\* lines 631-637: one turn of the loop over the paragraphs, left when
\* collected_comments has reached comment_limit
comment_next ==
    /\ lim_pc = "loop"
    /\ lim_kind = "comments"
    /\ lim_idx <= Len(lim_selected)
    /\ IF lim_count >= limit_arg
       THEN /\ lim_pc' = "done"
            /\ UNCHANGED <<lim_idx, lim_count>>
       ELSE /\ lim_count' = IF lim_selected[lim_idx] = "text" THEN lim_count + 1
                            ELSE lim_count
            /\ lim_idx' = lim_idx + 1
            /\ UNCHANGED lim_pc
    /\ UNCHANGED <<lim_kind, limit_arg, lim_found, lim_selected>>
    /\ UNCHANGED outsideLim

\* the list is exhausted
limited_loop_end ==
    /\ lim_pc = "loop"
    /\ lim_idx > Len(lim_selected)
    /\ lim_pc' = "done"
    /\ UNCHANGED <<lim_kind, limit_arg, lim_found, lim_selected, lim_idx, lim_count>>
    /\ UNCHANGED outsideLim

NextLimits ==
    \/ apply_source_limit
    \/ fetch_or_visit_next
    \/ comments_found
    \/ comment_next
    \/ limited_loop_end

SpecLimits == InitLimits /\ [][NextLimits]_vars

-----------------------------------------------------------------------------
(* Termination: a run of main from step 2 to the exit, a call of           *)
(* discover_sources, or a call of clean_thinking_tags, each followed to    *)
(* its end under the assumption that every call made returns               *)

\* the pieces that matter to the loop: think delimiters, the split
\* delimiter, a word
LoopChunks == {OpenTag("THINK"), CloseTag("think"), SplitOpenThink, <<"W">>}

\* the arguments of the call that is followed pass by pass
LoopInputs == {NoneVal} \cup {Str(Join(q)) : q \in SeqsUpTo(LoopChunks, MaxChunks)}

\* one more pass over each text of a set
ThinkRemovedFrom(texts) == {ReSubThink(t, 1) : t \in texts}

\* the texts the loop can hold: the arguments and what passes make of them
RECURSIVE PassClosure(_)
PassClosure(texts) ==
    IF ThinkRemovedFrom(texts) \subseteq texts THEN texts
    ELSE PassClosure(texts \cup ThinkRemovedFrom(texts))

\* re.sub of line 39 on each of these texts
ThinkRemoved ==
    [t \in PassClosure({x.text : x \in LoopInputs}) |-> ReSubThink(t, 1)]

InitCleanLoop ==
    /\ ai_pc = "idle"
    /\ ai_config = "ok"
    /\ ai_timeout = 300
    /\ ai_posts = <<>>
    /\ ai_sleeps = <<>>
    /\ ai_result = NoneVal
    /\ DiscIdle
    /\ LimIdle
    /\ AppIdle
    /\ SummIdle
    /\ summaries_with_scores = <<>>
    /\ reference_docs_content = <<>>
    /\ reference_docs_summarize = FALSE
    /\ RepIdle
    /\ ScrIdle
    /\ DksIdle
    /\ fn_pc = "clean_enter"
    /\ fn_text \in LoopInputs
    /\ fn_result = <<>>
    /\ fn_again = <<>>
    /\ clean_prev_text = <<>>
    /\ clean_current_text = <<>>

\* utils.py 34-36: None returns "", otherwise prev_text = "" and
\* current_text = str(text)
clean_thinking_tags_enter ==
    /\ fn_pc = "clean_enter"
    /\ IF fn_text.none
       THEN /\ fn_pc' = "clean_returned"
            /\ UNCHANGED clean_current_text
       ELSE /\ fn_pc' = "clean_loop"
            /\ clean_current_text' = fn_text.text
    /\ UNCHANGED <<fn_text, fn_result, fn_again, clean_prev_text>>
    /\ UNCHANGED outsideFn

\* utils.py 37-39: one iteration of the while loop
clean_thinking_tags_pass ==
    /\ fn_pc = "clean_loop"
    /\ clean_prev_text # clean_current_text
    /\ clean_prev_text' = clean_current_text
    /\ clean_current_text' = ThinkRemoved[clean_current_text]
    /\ UNCHANGED <<fn_pc, fn_text, fn_result, fn_again>>
    /\ UNCHANGED outsideFn

\* utils.py 37 and 40: the loop ends, current_text.strip() is returned
clean_thinking_tags_return ==
    /\ fn_pc = "clean_loop"
    /\ clean_prev_text = clean_current_text
    /\ fn_result' = Strip(clean_current_text)
    /\ fn_pc' = "clean_returned"
    /\ UNCHANGED <<fn_text, fn_again, clean_prev_text, clean_current_text>>
    /\ UNCHANGED outsideFn

InitTerminate == InitRun \/ InitDiscover \/ InitCleanLoop

NextTerminate ==
    \/ main_determine_sources
    \/ scrape_direct
    \/ scrape_finish_item
    \/ scrape_return
    \/ main_scrape_returned
    \/ summarize_prepare
    \/ summarize_skip_short
    \/ summarize_begin_item
    \/ summarize_attempt
    \/ summarize_append
    \/ summarize_return
    \/ main_summaries_returned
    \/ main_check_summaries
    \/ generate_report_context
    \/ generate_report_call
    \/ generate_report_parse
    \/ generate_report_save
    \/ main_after_generate
    \/ main_refine
    \/ refine_report_call
    \/ refine_report_parse
    \/ refine_report_save
    \/ main_after_refine
    \/ main_complete
    \/ discover_sources_call
    \/ discover_sources_validate
    \/ discover_sources_return
    \/ clean_thinking_tags_enter
    \/ clean_thinking_tags_pass
    \/ clean_thinking_tags_return

\* the program is sequential and every call returns: a step that can be
\* taken is taken
SpecTerminate == InitTerminate /\ [][NextTerminate]_vars /\ WF_vars(NextTerminate)

-----------------------------------------------------------------------------
(* app.py: the web host.  Requests are served by threads of the WSGI       *)
(* server, so the handlers interleave statement by statement; the          *)
(* generator generate_stream runs when the server iterates the response,   *)
(* after generate_report_stream has returned.                              *)

outsideApp == <<summVars, repVars, scrVars, dksVars, fnVars, aiVars, discVars, limVars>>

InitApp ==
    /\ AppIdle
    /\ SummIdle
    /\ summaries_with_scores = <<>>
    /\ reference_docs_content = <<>>
    /\ reference_docs_summarize = FALSE
    /\ RepIdle
    /\ ScrIdle
    /\ DksIdle
    /\ fn_pc = "idle"
    /\ fn_text = NoneVal
    /\ fn_result = <<>>
    /\ fn_again = <<>>
    /\ clean_prev_text = <<>>
    /\ clean_current_text = <<>>
    /\ ai_pc = "idle"
    /\ ai_config = "ok"
    /\ ai_timeout = 300
    /\ ai_posts = <<>>
    /\ ai_sleeps = <<>>
    /\ ai_result = NoneVal
    /\ DiscIdle
    /\ LimIdle

\* lines 60-66: the next generate request arrives and reads the flag
generate_report_stream_check ==
    /\ \E r \in 1..MaxRequests :
         /\ app_req[r] = "none"
         /\ \A q \in 1..(r - 1) : app_req[q] # "none"
         /\ IF process_running
            THEN /\ app_req' = [app_req EXCEPT ![r] = "rejected"]
                 /\ UNCHANGED accepted_while_alive
            ELSE /\ app_req' = [app_req EXCEPT ![r] = "accepted"]
                 /\ accepted_while_alive' = (accepted_while_alive \/ app_alive # {})
    /\ UNCHANGED <<process_running, current_process, app_alive, app_client,
                   stop_pc, stop_target, stops_made>>
    /\ UNCHANGED outsideApp

\* lines 68-232: the command is built, the uploads are saved, the flag is
\* set at line 178 and the streaming response is returned
generate_report_stream_respond ==
    /\ \E r \in 1..MaxRequests :
         /\ app_req[r] = "accepted"
         /\ app_req' = [app_req EXCEPT ![r] = "response"]
    /\ process_running' = TRUE
    /\ UNCHANGED <<current_process, app_alive, app_client, stop_pc, stop_target,
                   stops_made, accepted_while_alive>>
    /\ UNCHANGED outsideApp

\* the clause of lines 223-226 is left out when the generator is closed
finally_runs_unless_closed(way) == way # "closed"

\* lines 223-226: the finally clause runs on every way out of the started
\* generator: its end, an exception, a close at a yield
finally_runs(way) == TRUE

\* the generator of request r ends in the given way
generator_leaves(r, way) ==
    /\ app_req' = [app_req EXCEPT ![r] = way]
    /\ IF finally_runs(way)
       THEN /\ process_running' = FALSE
            /\ current_process' = 0
       ELSE UNCHANGED <<process_running, current_process>>

\* lines 184-185 and 213-226: subprocess.Popen starts report_builder.py, or
\* raises and the generator ends after its error event
generate_stream_start ==
    /\ \E r \in 1..MaxRequests :
         /\ app_req[r] = "response"
         /\ \E outcome \in {"started", "not_found"} :
              IF outcome = "started"
              THEN /\ app_alive' = app_alive \cup {r}
                   /\ current_process' = r
                   /\ app_req' = [app_req EXCEPT ![r] = "streaming"]
                   /\ UNCHANGED process_running
              ELSE /\ generator_leaves(r, "not_started")
                   /\ UNCHANGED app_alive
    /\ UNCHANGED <<app_client, stop_pc, stop_target, stops_made, accepted_while_alive>>
    /\ UNCHANGED outsideApp

\* lines 188-195 and 223-226: the write of an event to a client that has
\* gone fails, the server closes the generator at its yield; the subprocess
\* is neither terminated nor waited for
generate_stream_closed ==
    /\ \E r \in 1..MaxRequests :
         /\ app_req[r] = "streaming"
         /\ ~app_client[r]
         /\ generator_leaves(r, "closed")
    /\ UNCHANGED <<app_alive, app_client, stop_pc, stop_target, stops_made,
                   accepted_while_alive>>
    /\ UNCHANGED outsideApp

\* lines 188-211 and 223-226: the subprocess has exited, the last event is
\* sent and the generator ends
generate_stream_end ==
    /\ \E r \in 1..MaxRequests :
         /\ app_req[r] = "streaming"
         /\ r \notin app_alive
         /\ generator_leaves(r, "finished")
    /\ UNCHANGED <<app_alive, app_client, stop_pc, stop_target, stops_made,
                   accepted_while_alive>>
    /\ UNCHANGED outsideApp

\* the client of an accepted request goes away, before or while the output
\* is streamed
client_disconnects ==
    /\ \E r \in 1..MaxRequests :
         /\ app_req[r] \in {"accepted", "response", "streaming"}
         /\ app_client[r]
         /\ app_client' = [app_client EXCEPT ![r] = FALSE]
    /\ UNCHANGED <<process_running, current_process, app_alive, app_req,
                   stop_pc, stop_target, stops_made, accepted_while_alive>>
    /\ UNCHANGED outsideApp

\* a report_builder subprocess exits, by itself or after terminate()
subprocess_exits ==
    /\ \E p \in app_alive : app_alive' = app_alive \ {p}
    /\ UNCHANGED <<process_running, current_process, app_req, app_client,
                   stop_pc, stop_target, stops_made, accepted_while_alive>>
    /\ UNCHANGED outsideApp

\* lines 391-395 and 401-402: a stop request arrives; with a process and
\* the flag it calls terminate() and waits, otherwise it answers "info"
stop_report_begin ==
    /\ stop_pc = "idle"
    /\ stops_made < MaxStops
    /\ stops_made' = stops_made + 1
    /\ IF current_process # 0 /\ process_running
       THEN /\ stop_pc' = "wait"
            /\ stop_target' = current_process
       ELSE UNCHANGED <<stop_pc, stop_target>>
    /\ UNCHANGED <<process_running, current_process, app_alive, app_req,
                   app_client, accepted_while_alive>>
    /\ UNCHANGED outsideApp

\* lines 395-398: wait() returns, the flag and the global are reset
stop_report_stopped ==
    /\ stop_pc = "wait"
    /\ stop_target \notin app_alive
    /\ process_running' = FALSE
    /\ current_process' = 0
    /\ stop_pc' = "idle"
    /\ stop_target' = 0
    /\ UNCHANGED <<app_alive, app_req, app_client, stops_made, accepted_while_alive>>
    /\ UNCHANGED outsideApp

\* lines 395 and 399-400: wait(timeout=5) raises TimeoutExpired, the
\* answer is 500 and nothing is reset
stop_report_error ==
    /\ stop_pc = "wait"
    /\ stop_target \in app_alive
    /\ stop_pc' = "idle"
    /\ stop_target' = 0
    /\ UNCHANGED <<process_running, current_process, app_alive, app_req,
                   app_client, stops_made, accepted_while_alive>>
    /\ UNCHANGED outsideApp

\* the steps of the server's threads, which run whenever they can
AppProgress ==
    \/ generate_report_stream_respond
    \/ generate_stream_start
    \/ generate_stream_closed
    \/ generate_stream_end
    \/ stop_report_stopped
    \/ stop_report_error

NextApp ==
    \/ generate_report_stream_check
    \/ generate_report_stream_respond
    \/ generate_stream_start
    \/ generate_stream_closed
    \/ generate_stream_end
    \/ client_disconnects
    \/ subprocess_exits
    \/ stop_report_begin
    \/ stop_report_stopped
    \/ stop_report_error

\* a handler or a generator that can take its next step takes it, and a
\* subprocess exits (every pipeline run ends); requests and disconnects
\* come when they come
SpecApp ==
    InitApp /\ [][NextApp]_vars /\ WF_vars(AppProgress) /\ WF_vars(subprocess_exits)

-----------------------------------------------------------------------------
Distinct(records) ==
    \A a, b \in 1..Len(records) : a # b => records[a].url # records[b].url

(* C1: the list scrape_content builds never holds two ContentRecords of    *)
(* one URL: a URL that produced a record for an earlier item produces no   *)
(* second record when a later item reaches it, whatever the strategy.      *)
C1_OneRecordPerUrl ==
    /\ Distinct(scraped_data)
    /\ scr_pc = "reddit_posts" => Distinct(scraped_data \o reddit_data)

C1_Witness ==
    /\ scr_pc = "done"
    /\ Len(sources_or_urls) >= 2
    /\ \E k \in 1..Len(scraped_data) : scraped_data[k].url \in dedup_hits

(* C2 as claimed: within one run of scrape_content no URL is fetched more  *)
(* than once, whatever the outcome of the fetches.                         *)
C2_NoUrlFetchedTwice ==
    \A a, b \in 1..Len(fetch_log) : a # b => fetch_log[a].url # fetch_log[b].url

(* C2 as amended: within one run of scrape_content no URL is fetched again *)
(* once a fetch of it has produced a ContentRecord; a URL whose fetch      *)
(* failed may be fetched again when a later item reaches it.               *)
C2_NoFetchAfterRecord ==
    \A a, b \in 1..Len(fetch_log) :
        (a < b /\ fetch_log[a].url = fetch_log[b].url) => ~fetch_log[a].ok

C2_Witness ==
    /\ scr_pc = "done"
    /\ Len(fetch_log) >= 2
    /\ \E a \in 1..Len(fetch_log) : fetch_log[a].ok /\ fetch_log[a].url \in dedup_hits

FallbackPolicy(g) ==
    g.primary.kind # "unset" =>
       /\ g.fallback_called <=> g.primary.kind \in {"none", "quota"}
       /\ g.fallback_called <=> g.fallback.kind # "unset"
       /\ (g.primary.kind = "quota" /\ g.fallback.kind = "list") => g.result = g.fallback
       /\ g.primary.kind = "list" => (~g.fallback_called /\ g.result = g.primary)

(* C6: for each query the fallback provider is called exactly when the     *)
(* primary returned None or the quota signal; a URL list of the fallback   *)
(* after a quota signal of the primary is the result of the query; a URL   *)
(* list of the primary, even an empty one, is the result and the fallback  *)
(* is not called.  In scrape_content and in perform_direct_keyword_search. *)
C6_FallbackIffPrimaryFailed ==
    /\ FallbackPolicy(gw)
    /\ FallbackPolicy(dks_gw)
    /\ (scr_pc \in {"web_search", "web_fetch"} /\ gw.result.kind = "list") =>
          \A k \in 1..Len(gw.result.urls) :
             gw.result.urls[k] \in urls_to_scrape_for_domain \cup seen_urls_global

C6_Witness ==
    /\ scr_pc = "web_search"
    /\ gw.primary.kind = "quota"
    /\ gw.fallback_called
    /\ gw.fallback = SList(<<U1, P1>>)
    /\ gw.result = gw.fallback
    /\ {U1, P1} \subseteq urls_to_scrape_for_domain

(* C3: every record returned by summarize_content has score -1 or a score  *)
(* in 0..10, whatever the LLM answers; a score tag whose value is outside  *)
(* 0..10, missing or not a number is recorded as -1.                       *)
C3_ScoreRange ==
    /\ \A k \in 1..Len(summaries_with_scores) :
          summaries_with_scores[k].score \in (0..10) \cup {-1}
    /\ (summ_pc = "append" /\ ~cleaned_response.none) =>
          LET m == score_match(cleaned_response.text)
          IN  /\ score \in (0..10) \cup {-1}
              /\ (m = <<>> \/ ParseInt(m) > 10) => score = -1

C3_Witness ==
    /\ summ_pc = "done"
    /\ \E k \in 1..Len(summaries_with_scores) :
          /\ summaries_with_scores[k].score = -1
          /\ ~IsErrorSummary(summaries_with_scores[k].summary)
    /\ ~cleaned_response.none
    /\ score_match(cleaned_response.text) # <<>>
    /\ ParseInt(score_match(cleaned_response.text)) > 10

(* C10: summarize_content calls the LLM at most 3 times for one item, and  *)
(* when all 3 replies lack the <toolScrapeSummary> tag the record of the   *)
(* item carries an error-marker summary and score -1.                      *)
C10_SummaryRetryBound ==
    /\ item_llm_calls <= 3
    /\ (summ_pc = "append" /\ item_llm_calls = 3 /\ item_tag_absent = 3) =>
          (IsErrorSummary(summary) /\ score = -1)
    /\ (summ_pc \in {"item", "done"} /\ item_llm_calls = 3 /\ item_tag_absent = 3) =>
          LET rec == summaries_with_scores[Len(summaries_with_scores)]
          IN  IsErrorSummary(rec.summary) /\ rec.score = -1

C10_Witness ==
    /\ summ_pc = "done"
    /\ item_llm_calls = 3
    /\ item_tag_absent = 3
    /\ summaries_with_scores[Len(summaries_with_scores)].summary = ErrTagMissing

\* positions of the tag's open delimiter in text, letter case ignored
OpenPositions(text, tag) ==
    {i \in 1..Len(text) : MatchAtFold(text, OpenTag(tag), i)}

\* positions of the tag's close delimiter at or after position from
ClosePositions(text, tag, from) ==
    {j \in from..Len(text) : MatchAtFold(text, CloseTag(tag), j)}

(* The content between the last open tag and the close tag that follows    *)
(* it, stated by positions; empty when there is no such pair.              *)
TagPairContent(x, tag) ==
    LET t == IF x.none THEN <<>> ELSE x.text
    IN  IF OpenPositions(t, tag) = {} THEN <<>>
        ELSE LET i == Max(OpenPositions(t, tag)) + Len(OpenTag(tag))
             IN  IF ClosePositions(t, tag, i) = {} THEN <<>>
                 ELSE Strip(SubSeq(t, i, Min(ClosePositions(t, tag, i)) - 1))

Scores(list) == [k \in 1..Len(list) |-> list[k].score]

Qualifies(s) == s.score >= score_threshold /\ ~StartsWith(s.summary, <<"Error:">>)

(* C4: the context built by generate_report holds exactly the records with *)
(* score >= threshold and a summary that is no error marker, in descending *)
(* order of score; with threshold 5 and scores [8, 3, 6, -1] the records   *)
(* scored 8 and 6 are used.                                                *)
C4_ReportContext ==
    rep_pc # "generate_report" =>
       /\ \A k \in 1..Len(summaries_with_scores) :
             Qualifies(summaries_with_scores[k]) <=>
                (\E j \in 1..Len(top_summaries) : top_summaries[j] = summaries_with_scores[k])
       /\ Len(top_summaries) =
             Cardinality({k \in 1..Len(summaries_with_scores) :
                             Qualifies(summaries_with_scores[k])})
       /\ \A i, j \in 1..Len(top_summaries) :
             i < j => top_summaries[i].score >= top_summaries[j].score
       /\ (/\ score_threshold = 5
           /\ Scores(summaries_with_scores) = <<8, 3, 6, -1>>
           /\ \A k \in 1..4 : ~IsErrorSummary(summaries_with_scores[k].summary))
          => top_summaries = <<summaries_with_scores[1], summaries_with_scores[3]>>

C4_Witness ==
    /\ rep_pc = "gen_call"
    /\ score_threshold = 5
    /\ Scores(summaries_with_scores) = <<8, 3, 6, -1>>
    /\ \A k \in 1..4 : ~IsErrorSummary(summaries_with_scores[k].summary)
    /\ Scores(top_summaries) = <<8, 6>>

(* C5: no record with score -1 is in the context built by generate_report, *)
(* whatever the threshold and whatever the summary text of the record.     *)
C5_NoUnscoredInContext ==
    \A k \in 1..Len(top_summaries) : top_summaries[k].score # -1

NoGenContent ==
    /\ gen_history # <<>>
    /\ \A k \in 1..Len(gen_history) : TagPairContent(gen_history[k], "reportContent") = <<>>

(* C7: generate_report calls the LLM at most 3 times and its report text   *)
(* is the <reportContent> content of the first response, in call order,    *)
(* that has a tag pair with content; when responses 1 and 2 lack the tag   *)
(* and response 3 has it, the text is that of response 3 and 2 retry log   *)
(* entries were written.                                                   *)
C7_GenerateRetries ==
    /\ Len(gen_history) <= 3
    /\ gen_retry_logs <= 2
    /\ (rep_pc = "gen_save" \/ gen_result \in {"archive", "cwd"}) =>
          LET n == Len(gen_history)
          IN  /\ n >= 1
              /\ \A k \in 1..(n - 1) : TagPairContent(gen_history[k], "reportContent") = <<>>
              /\ TagPairContent(gen_history[n], "reportContent") # <<>>
              /\ report_text = TagPairContent(gen_history[n], "reportContent")
              /\ gen_retry_logs = n - 1

C7_Witness ==
    /\ rep_pc = "gen_save"
    /\ Len(gen_history) = 3
    /\ ~Falsy(gen_history[2])
    /\ ~Contains(Lower(gen_history[1].text), Lower(OpenTag("reportContent")))
    /\ ~Contains(Lower(gen_history[2].text), Lower(OpenTag("reportContent")))
    /\ report_text = <<"r2">>
    /\ gen_retry_logs = 2

(* C8: when no response to the report prompt has parseable                 *)
(* <reportContent> content, generate_report returns failure, the run ends  *)
(* as failed, no initial report file is written and the refinement is not  *)
(* started.                                                                *)
C8_GenerateFailureIsFatal ==
    NoGenContent =>
       /\ ~initial_file_written
       /\ ~refine_started
       /\ run_status # "completed"
       /\ rep_pc \notin {"gen_save", "main_refine", "refine_call", "refine_parse",
                         "refine_save", "main_after_refine", "main_complete"}
       /\ rep_pc \in {"main_after_generate", "exit"} => gen_result = "failed"
       /\ rep_pc = "exit" => run_status = "failed"

C8_Witness ==
    /\ rep_pc = "exit"
    /\ Len(gen_history) = 3
    /\ NoGenContent
    /\ run_status = "failed"
    /\ ~initial_file_written

RefineReturned == rep_pc \in {"main_after_refine", "main_complete", "exit"}

NoRefineContent ==
    /\ ref_history # <<>>
    /\ \A k \in 1..Len(ref_history) : TagPairContent(ref_history[k], "refinedReport") = <<>>

(* C9: when the LLM call of the refinement fails or none of its at most 3  *)
(* responses has parseable <refinedReport> content,                        *)
(* refine_report_presentation returns None and main completes with the     *)
(* initial report as the final report.                                     *)
C9_RefineFailureFallsBack ==
    /\ Len(ref_history) <= 3
    /\ (RefineReturned /\ NoRefineContent) =>
          /\ refine_result = "None"
          /\ run_status # "failed"
          /\ rep_pc \in {"main_complete", "exit"} => final_report_path_to_show = "initial"
          /\ rep_pc = "exit" => run_status = "completed"

C9_Witness ==
    /\ rep_pc = "exit"
    /\ Len(ref_history) = 3
    /\ NoRefineContent
    /\ refine_result = "None"
    /\ run_status = "completed"
    /\ final_report_path_to_show = "initial"

-----------------------------------------------------------------------------
(* summarize_content: which responses are retried                          *)

\* C11: a further LLM attempt for an item is made only after a response from
\* which the <toolScrapeSummary> open tag is entirely absent; a response that
\* contains the open tag (for instance with no closing tag after it) is never
\* retried.  The loop stands at "attempt" with calls already made exactly
\* when a further attempt follows the last response.
C11_RetryOnlyWhenTagAbsent ==
    (summ_pc = "attempt" /\ item_llm_calls > 0)
        => /\ ~cleaned_response.none
           /\ TagAbsent(cleaned_response.text, "toolScrapeSummary")

\* the response holds a tag pair (last open delimiter, first close delimiter
\* after it) with nothing but blanks between the two delimiters
EmptyTagPair(x, tag) ==
    /\ ~x.none
    /\ OpenPositions(x.text, tag) # {}
    /\ LET i == Max(OpenPositions(x.text, tag)) + Len(OpenTag(tag))
       IN  /\ ClosePositions(x.text, tag, i) # {}
           /\ \A k \in i..(Min(ClosePositions(x.text, tag, i)) - 1) : IsSpace(x.text[k])

-----------------------------------------------------------------------------
(* main: nothing to synthesize from                                        *)

\* no record qualifies and no reference document is there for verbatim use
NothingToSynthesize ==
    /\ \A k \in 1..Len(summaries_with_scores) : ~Qualifies(summaries_with_scores[k])
    /\ reference_docs_content = <<>> \/ reference_docs_summarize

\* C13: when no SummaryRecord qualifies and no reference document is
\* available for verbatim use, synthesis fails fatally: no report-generation
\* LLM call is made and the run ends as failed.
C13_NothingToSynthesizeIsFatal ==
    (rep_pc # "idle" /\ NothingToSynthesize)
        => /\ gen_history = <<>>
           /\ rep_pc \in {"main_check_summaries", "exit"}
           /\ run_status # "completed"
           /\ rep_pc = "exit" => run_status = "failed"

\* a run with one record below the threshold and a reference document that
\* was itself to be summarized has ended as failed
C13_Witness ==
    /\ rep_pc = "exit"
    /\ run_status = "failed"
    /\ NothingToSynthesize
    /\ summaries_with_scores # <<>>
    /\ reference_docs_content # <<>>
    /\ gen_history = <<>>

-----------------------------------------------------------------------------
(* scrape_content: browser sessions, failing items, strategy routing       *)

\* positions of scrape_content between two source items, before the first
\* and after the last
BetweenItems == scr_pc \in {"idle", "main_sources", "skipped", "item", "finish_item", "done"}

\* C14: at most one browser session is open at any time, and every session
\* acquired for a Reddit item has been quit before the next source item
\* starts, on every way out of the item: normal completion, a timeout, an
\* exception raised while searching or visiting posts.
C14_OneSessionReleasedPerItem ==
    /\ sessions_open <= 1
    /\ BetweenItems => sessions_open = 0

\* two Reddit items in a row: the first left its Selenium block through an
\* exception, and the session of the second is the only one open
C14_Witness ==
    /\ routes = {<<1, "reddit">>, <<2, "reddit">>}
    /\ <<1, "selenium_error">> \in item_failures
    /\ scr_i = 2
    /\ scr_pc = "reddit_posts"
    /\ sessions_open = 1

\* the indexes of the items a strategy was chosen for
Reached == {r[1] : r \in routes}

\* positions from which scrape_content goes on with the item loop
InItemLoop ==
    scr_pc \in {"item", "finish_item", "reddit_search", "reddit_posts", "reddit_except",
                "web_search", "web_fetch"}

\* the list a is an initial part of the list b
IsPrefix(a, b) == Len(a) <= Len(b) /\ SubSeq(b, 1, Len(a)) = a

\* C15: a failure in one source item (an exception raised in a strategy, or a
\* browser session that cannot be acquired) never prevents the later items
\* from being processed: whenever the item loop is over every item has been
\* reached, and the records gathered so far stay in the result at each step.
C15_FailureDoesNotStopLoop ==
    /\ [](~InItemLoop => Reached = 1..Len(sources_or_urls))
    /\ [][IsPrefix(scraped_data, scraped_data')]_vars

\* the first item failed with an exception, the second one was processed and
\* gave a record, and scrape_content has returned
C15_Witness ==
    /\ scr_pc = "done"
    /\ <<1, "exception">> \in item_failures
    /\ 2 \in Reached
    /\ Len(sources_or_urls) = 2
    /\ scraped_data # <<>>

\* the community pattern: the item starts with r/ or contains reddit.com/r/
MatchesCommunityPattern(item) ==
    \/ MatchAt(item, <<"r", "/">>, 1)
    \/ \E i \in 1..Len(item) : MatchAt(item, <<"reddit.com", "/", "r", "/">>, i)

\* Reddit before Direct before Website
ExpectedStrategy(item) ==
    IF MatchesCommunityPattern(item) THEN "reddit"
    ELSE IF \E k \in 1..Len(direct_article_urls) : direct_article_urls[k] = item
         THEN "direct"
         ELSE "website"

\* the items the loop has chosen a strategy for
Classified == {k \in 1..Len(sources_or_urls) : k < scr_i \/ (k = scr_i /\ scr_pc # "item")}

\* C16: every source item is given to exactly one strategy, with precedence
\* Reddit over Direct over Website: an item that matches the community
\* pattern goes to the Reddit strategy even when it is also in the direct-URL
\* set, and never to the Website strategy.
C16_ClassificationTotalAndExclusive ==
    /\ \A r \in routes : r[2] = ExpectedStrategy(sources_or_urls[r[1]])
    /\ \A k \in 1..Len(sources_or_urls) :
          Cardinality({r \in routes : r[1] = k}) = IF k \in Classified THEN 1 ELSE 0

\* a reddit.com/r/ URL of the direct-articles file went to the Reddit
\* strategy, another item of the run to the Website strategy
C16_Witness ==
    /\ \E k \in 1..Len(sources_or_urls) :
          /\ sources_or_urls[k] = RedditUrlA
          /\ <<k, "reddit">> \in routes
    /\ \E k \in 1..Len(direct_article_urls) : direct_article_urls[k] = RedditUrlA
    /\ \E k \in 1..Len(sources_or_urls) : <<k, "website">> \in routes

-----------------------------------------------------------------------------
(* utils.py: the tagged-response parser and the think-span cleaner         *)

\* the reference parser: clean the text; take the last open delimiter of the
\* tag, letter case ignored, and the first close delimiter after it; with
\* both, the trimmed text between them in its original letter case;
\* otherwise the whole cleaned text
ReferenceParse(x, tag) ==
    LET t == clean_thinking_tags(x)
    IN  IF OpenPositions(t, tag) = {} THEN t
        ELSE LET i == Max(OpenPositions(t, tag)) + Len(OpenTag(tag))
             IN  IF ClosePositions(t, tag, i) = {} THEN t
                 ELSE Strip(SubSeq(t, i, Min(ClosePositions(t, tag, i)) - 1))

\* C17: parse_ai_tool_response(text, tag) equals the reference parser for
\* every text.
C17_ParseEqualsReference ==
    fn_pc = "parsed" => fn_result = ReferenceParse(fn_text, "foo")

\* the text holds neither <foo> nor </foo>
NoFooDelimiter(t) == ~Contains(t, OpenTag("foo")) /\ ~Contains(t, CloseTag("foo"))

\* C18: for every text X that contains neither <foo> nor </foo>,
\* parse_ai_tool_response('<foo>' + X + '</foo>', 'foo') is X.
C18_RoundTrip ==
    (fn_pc = "wrapped" /\ NoFooDelimiter(fn_text.text)) => fn_result = fn_text.text

\* C19: clean_thinking_tags is idempotent: cleaning its own result gives the
\* same text, for every argument, None and texts with overlapping or
\* unbalanced think tags included.
C19_CleanIdempotent ==
    fn_pc = "cleaned" => fn_again = fn_result

\* a text whose cleaning takes two passes of the substitution has been cleaned
C19_Witness ==
    /\ fn_pc = "cleaned"
    /\ ~fn_text.none
    /\ ReSubThink(fn_text.text, 1) # fn_text.text
    /\ ReSubThink(ReSubThink(fn_text.text, 1), 1) # ReSubThink(fn_text.text, 1)
    /\ fn_again = fn_result

\* the text from position i on, read at nesting depth depth: whether the
\* think delimiters are properly nested, and the symbols outside every span
RECURSIVE OutsideSpans(_, _, _)
OutsideSpans(text, i, depth) ==
    IF i > Len(text) THEN [ok |-> depth = 0, out |-> <<>>]
    ELSE IF MatchAtFold(text, OpenTag("think"), i)
    THEN OutsideSpans(text, i + Len(OpenTag("think")), depth + 1)
    ELSE IF MatchAtFold(text, CloseTag("think"), i)
    THEN IF depth = 0 THEN [ok |-> FALSE, out |-> <<>>]
         ELSE OutsideSpans(text, i + Len(CloseTag("think")), depth - 1)
    ELSE LET rest == OutsideSpans(text, i + 1, depth)
         IN  [ok |-> rest.ok,
              out |-> IF depth = 0 THEN <<text[i]>> \o rest.out ELSE rest.out]

\* C20: for a text whose think tags are properly nested, clean_thinking_tags
\* returns the text with every outermost span and everything inside it
\* deleted, then trimmed: no text from inside a span and no delimiter of a
\* span is left.
C20_RemovesNestedSpans ==
    (fn_pc = "cleaned" /\ ~fn_text.none /\ OutsideSpans(fn_text.text, 1, 0).ok)
        => fn_result = Strip(OutsideSpans(fn_text.text, 1, 0).out)

-----------------------------------------------------------------------------
(* scrape_content: both providers out of quota                             *)

\* the step is a search query of a Website item that both providers answered
\* with the quota signal
BothQuotaStep ==
    /\ scr_pc = "web_search"
    /\ gw'.primary = SQuota
    /\ gw'.fallback_called
    /\ gw'.fallback = SQuota

\* C21: when both the primary and the fallback provider signal quota
\* exhaustion for a query, the query contributes zero URLs, the quota marker
\* is not taken for a URL list (the result of the query is None), no error
\* is raised, and the loop goes on with the next query or with the fetches
\* of the item.
C21_BothQuotaYieldsNothing ==
    [][BothQuotaStep =>
          /\ gw'.result = SNone
          /\ urls_to_scrape_for_domain' = urls_to_scrape_for_domain
          /\ item_failures' = item_failures
          /\ query_idx' = query_idx + 1
          /\ scr_pc' = IF query_idx < NumQueries THEN "web_search" ELSE "web_fetch"
          /\ scr_i' = scr_i]_vars

\* the first query of a Website item met the quota signal of both providers,
\* nothing was gathered, and the second query is next
C21_Witness ==
    /\ scr_pc = "web_search"
    /\ query_idx = 2
    /\ gw.primary = SQuota
    /\ gw.fallback = SQuota
    /\ gw.result = SNone
    /\ urls_to_scrape_for_domain = {}
    /\ item_failures = {}

-----------------------------------------------------------------------------
(* call_ai_api: the POSTs of one call                                      *)

\* the answer is an HTTP error status
IsHttpError(answer) == answer.kind = "http"

\* C22: one call of call_ai_api sends at most two POSTs; a second POST is
\* sent if and only if the first answer was HTTP 429, after the fixed wait;
\* any other HTTP error status fails the call at once with (None, None); a
\* failure of the retry also gives (None, None), without a third POST.
C22_OneRetryOn429Only ==
    /\ Len(ai_posts) <= 2
    /\ Len(ai_posts) = 2
          => (IsHttpError(ai_posts[1]) /\ ai_posts[1].status = 429 /\ ai_sleeps = <<61>>)
    /\ (ai_pc = "returned" /\ ai_posts # <<>>
          /\ IsHttpError(ai_posts[1]) /\ ai_posts[1].status = 429)
          => Len(ai_posts) = 2
    /\ (ai_posts # <<>> /\ IsHttpError(ai_posts[1]) /\ ai_posts[1].status # 429)
          => (ai_pc = "returned" /\ ai_result = NoneVal /\ Len(ai_posts) = 1)
    /\ (Len(ai_posts) = 2 /\ ai_posts[2].kind # "message")
          => (ai_pc = "returned" /\ ai_result = NoneVal)

\* a call whose first POST met 429 and whose retry met 429 again has returned
\* (None, None)
C22_Witness ==
    /\ ai_pc = "returned"
    /\ Len(ai_posts) = 2
    /\ ai_posts[1].status = 429
    /\ ai_posts[2].status = 429
    /\ ai_result = NoneVal
    /\ ai_sleeps = <<61>>


\* the text has no open tag that a close tag follows, letter case ignored
NoTagPair(text, tag) ==
    \A o \in 1..Len(text) :
        MatchAtFold(text, OpenTag(tag), o)
            => FindFold(text, CloseTag(tag), o + Len(OpenTag(tag))) = 0

\* the LLM call of discover_sources failed, or its response has no
\* <toolWebsites> pair
DiscoveryFailed ==
    /\ disc_llm_calls # <<>>
    /\ \/ Falsy(disc_llm_calls[1])
       \/ NoTagPair(disc_llm_calls[1].text, "toolWebsites")

(***************************************************************************)
(* C23: discover_sources calls the LLM exactly once and never again; when  *)
(* the call fails or the response has no <toolWebsites> pair to extract,   *)
(* it returns the empty list and no candidate is checked for reachability. *)
(***************************************************************************)
C23_OneCallNoCheckOnFailure ==
    /\ Len(disc_llm_calls) <= 1
    /\ disc_pc \in {"validate", "returned"} => Len(disc_llm_calls) = 1
    /\ DiscoveryFailed =>
          /\ disc_pc = "returned"
          /\ disc_result = <<>>
          /\ disc_checks = <<>>

\* a response that names a site without the tags: nothing is checked
C23_Witness ==
    /\ disc_pc = "returned"
    /\ disc_llm_calls = <<Str(XCom)>>
    /\ disc_result = <<>>
    /\ disc_checks = <<>>

\* the candidate is a community name or its check got a status below 400
CheckAccepted(k) ==
    \/ StartsWith(sources_list[k], <<"r", "/">>)
    \/ disc_checks[k].kind = "status" /\ disc_checks[k].status < 400

\* the candidates from k on that were accepted, in their order
RECURSIVE AcceptedFrom(_)
AcceptedFrom(k) ==
    IF k > Len(sources_list) THEN <<>>
    ELSE (IF CheckAccepted(k) THEN <<sources_list[k]>> ELSE <<>>) \o AcceptedFrom(k + 1)

\* scheme and host of a URL whose host is its fourth symbol
SchemeAndHost(url) == <<url[1], "/", "/", url[4], "/">>

\* every candidate has its own check: community names without a request,
\* URLs with a HEAD request to scheme and host unless the URL cannot be parsed
EveryCandidateChecked ==
    /\ Len(disc_checks) = Len(sources_list)
    /\ \A k \in 1..Len(sources_list) :
          /\ disc_checks[k].source = sources_list[k]
          /\ StartsWith(sources_list[k], <<"r", "/">>) <=> disc_checks[k].kind = "subreddit"
          /\ disc_checks[k].kind \in {"status", "timeout", "connection_error"}
                => disc_checks[k].target = SchemeAndHost(sources_list[k])

\* C24 as claimed: a failed check drops only its candidate, every candidate
\* is checked, and the list returned is the candidates that are community
\* names or whose scheme and host answered HEAD with a status below 400, in
\* their order.
C24_ResultIsAcceptedSublist ==
    (disc_pc = "returned" /\ sources_list # <<>>)
        => (EveryCandidateChecked /\ disc_result = AcceptedFrom(1))

(***************************************************************************)
(* C24 as amended: a failed check drops only its candidate and every       *)
(* candidate is checked; the list returned is the accepted candidates in   *)
(* their order, without the Reddit sources (community names and            *)
(* reddit.com/r/ URLs) when --no-reddit is set.                            *)
(***************************************************************************)
C24_ResultIsAcceptedSublistMinusReddit ==
    (disc_pc = "returned" /\ sources_list # <<>>)
        => /\ EveryCandidateChecked
           /\ disc_result = IF disc_no_reddit
                            THEN SelectSeq(AcceptedFrom(1), NotRedditSource)
                            ELSE AcceptedFrom(1)

\* the first candidate fails its check, the second is still checked and is
\* the result
C24_Witness ==
    /\ disc_pc = "returned"
    /\ Len(sources_list) = 2
    /\ disc_checks[1].kind \in {"timeout", "exception"}
    /\ disc_checks[2].kind = "status"
    /\ disc_result = <<sources_list[2]>>


\* the minimum length of the strategy, as documented
StrategyMinimum(strategy) == IF strategy = "article" THEN 150 ELSE 100

\* C25 as claimed: a fetch produces a ContentRecord if and only if the
\* extracted content has at least the minimum length of the strategy: 150
\* for an article, 100 for a forum post.
C25_RecordIffAtLeastMinimum ==
    \A k \in 1..Len(fetch_log) :
        /\ fetch_log[k].raised => ~fetch_log[k].ok
        /\ ~fetch_log[k].raised
              => (fetch_log[k].ok <=> fetch_log[k].len >= StrategyMinimum(fetch_log[k].strategy))

(***************************************************************************)
(* C25 as amended: a fetch produces a ContentRecord if and only if the     *)
(* extracted content is longer than the minimum of the strategy: an        *)
(* article text of 151 characters or more is kept and one of 150 or fewer  *)
(* is discarded; the combined content of a forum post is kept when it is   *)
(* longer than 100 characters.                                             *)
(***************************************************************************)
C25_RecordIffLongerThanMinimum ==
    \A k \in 1..Len(fetch_log) :
        /\ fetch_log[k].raised => ~fetch_log[k].ok
        /\ ~fetch_log[k].raised
              => (fetch_log[k].ok <=> fetch_log[k].len > StrategyMinimum(fetch_log[k].strategy))

\* an article of exactly 150 characters is discarded, one of 151 is kept
C25_Witness ==
    \E a, b \in 1..Len(fetch_log) :
        /\ fetch_log[a].strategy = "article" /\ fetch_log[a].len = 150 /\ ~fetch_log[a].ok
        /\ fetch_log[b].strategy = "article" /\ fetch_log[b].len = 151 /\ fetch_log[b].ok


\* the reference documents among the items of a list
ReferenceItems(list) == {k \in 1..Len(list) : list[k].type = "reference"}

\* every loaded reference document is an item of the summarizer's list
AllRefsPassedToSummarizer ==
    \A d \in 1..Len(reference_docs_content) :
        \E k \in ReferenceItems(content_to_process) :
            content_to_process[k].source_id = reference_docs_content[d].path

(***************************************************************************)
(* C26: the summarize option alone decides the use of the loaded reference *)
(* documents: with the option on every document is an item of the          *)
(* summarizer and none is put into the report context verbatim; with the   *)
(* option off none is an item of the summarizer or has a summary, and the  *)
(* context generate_report builds holds all of them verbatim.              *)
(***************************************************************************)
C26_ReferenceDocsUsedOneWay ==
    /\ reference_docs_summarize =>
          /\ summ_pc # "prepare" => AllRefsPassedToSummarizer
          /\ num_ref_docs_used = 0
    /\ ~reference_docs_summarize =>
          /\ ReferenceItems(content_to_process) = {}
          /\ ReferenceItems(summaries_with_scores) = {}
          /\ rep_pc = "gen_call" => num_ref_docs_used = Len(reference_docs_content)

\* a document that was summarized and whose summary qualifies stays out of
\* the verbatim part of the context
C26_Witness ==
    /\ rep_pc = "gen_call"
    /\ reference_docs_summarize
    /\ reference_docs_content # <<>>
    /\ \E k \in 1..Len(top_summaries) : top_summaries[k].type = "reference"
    /\ num_ref_docs_used = 0


\* C27: for one Website item at most max_web_results article fetches are
\* attempted, for one Reddit item at most max_reddit_results posts are
\* visited, and at most max_reddit_comments comment paragraphs are kept for
\* one post; a limit below zero allows none.
C27_PerSourceLimits ==
    lim_count <= (IF limit_arg < 0 THEN 0 ELSE limit_arg)


\* a file with this extension holds the text
PersistedAs(ext, text) == \E f \in files_written : f.ext = ext /\ f.text = text

\* C28 as claimed: whenever a run completes without a fatal error, the text
\* it reports as final, the refined text or the initial text, has been
\* persisted as a markdown file.
C28_FinalReportIsMarkdownFile ==
    run_status = "completed" =>
        /\ final_report_path_to_show = "refined" => PersistedAs("md", refined_report_text)
        /\ final_report_path_to_show = "initial" => PersistedAs("md", report_text)

(***************************************************************************)
(* C28 as amended: whenever a run completes without a fatal error, the     *)
(* text it reports as final has been persisted: the refined text as the    *)
(* markdown file of outputs/, the initial text as the text file            *)
(* research_report_initial_raw.txt of the archive or the working           *)
(* directory.                                                              *)
(***************************************************************************)
C28_FinalReportIsPersisted ==
    run_status = "completed" =>
        /\ final_report_path_to_show \in {"refined", "initial"}
        /\ final_report_path_to_show = "refined" => PersistedAs("md", refined_report_text)
        /\ final_report_path_to_show = "initial" =>
              \E f \in files_written :
                  /\ f.name = "research_report_initial_raw"
                  /\ f.ext = "txt"
                  /\ f.dir \in {"archive", "cwd"}
                  /\ f.text = report_text

\* a run whose refinement failed completes with the initial report
C28_Witness ==
    /\ run_status = "completed"
    /\ refine_started
    /\ refine_result = "None"
    /\ final_report_path_to_show = "initial"

(***************************************************************************)
(* C29: when refine_report_presentation has written the refined markdown   *)
(* and the PDF conversion returned False or raised, the function returns   *)
(* the markdown path alone, and the run is not failed: it completes with   *)
(* the refined report as its final report.                                 *)
(***************************************************************************)
C29_PdfFailureReturnsMarkdownPath ==
    (PersistedAs("md", refined_report_text) /\ pdf_success \in {"false", "raised"}) =>
        /\ refine_result = "md"
        /\ run_status # "failed"
        /\ rep_pc = "exit" =>
              (run_status = "completed" /\ final_report_path_to_show = "refined")

\* a run that completed after a conversion that returned False
C29_Witness ==
    /\ rep_pc = "exit"
    /\ run_status = "completed"
    /\ pdf_success = "false"
    /\ refine_result = "md"
    /\ ~(\E f \in files_written : f.ext = "pdf")

\* the initial report files that exist
InitialReportFiles == {f \in files_written : f.name = "research_report_initial_raw"}

\* the indexed entries of a references list
EntriesOf(references) == {k \in 1..Len(references) : references[k].kind = "entry"}

\* entry i of the list names summary i of the context, and the summaries of
\* the context are in the order of their scores
SummariesIndexedInOrder(references) ==
    /\ \A i \in 1..Len(top_summaries) :
          /\ i <= Len(references)
          /\ references[i] = ReferenceEntry(i, top_summaries[i].source_id)
    /\ \A i, j \in 1..Len(top_summaries) :
          i < j => top_summaries[i].score >= top_summaries[j].score

\* C30 as claimed: the references list generate_report writes after a
\* successful generation has one indexed entry for each summary of the
\* context, at the position of the summary, and one for each reference
\* document of the context.
C30_ReferencesCoverContext ==
    \A f \in InitialReportFiles :
        /\ SummariesIndexedInOrder(f.references)
        /\ Cardinality(EntriesOf(f.references)) = Len(top_summaries) + num_ref_docs_used

(***************************************************************************)
(* C30 as amended: the references list generate_report writes after a      *)
(* successful generation has one indexed entry for each summary of the     *)
(* context, at the position of the summary in the score-ordered context,   *)
(* and no other entry: the reference documents of the context are listed,  *)
(* after the summaries, only in the references section that                *)
(* refine_report_presentation builds for its prompt.  Two summaries and no *)
(* reference document give exactly 2 entries in both.                      *)
(***************************************************************************)
C30_ReferencesCoverSummaries ==
    /\ \A f \in InitialReportFiles :
          /\ SummariesIndexedInOrder(f.references)
          /\ Cardinality(EntriesOf(f.references)) = Len(top_summaries)
    /\ refine_started =>
          LET section == references_section_for_prompt(top_summaries, reference_docs_content,
                                                       reference_docs_summarize)
          IN  /\ SummariesIndexedInOrder(section)
              /\ Cardinality(EntriesOf(section)) = Len(top_summaries) + num_ref_docs_used
              /\ (Len(top_summaries) = 2 /\ reference_docs_content = <<>>)
                    => Cardinality(EntriesOf(section)) = 2

\* two summaries and a reference document in the context: two entries in the
\* initial file
C30_Witness ==
    /\ Len(top_summaries) = 2
    /\ num_ref_docs_used = 1
    /\ \E f \in InitialReportFiles : Len(f.references) = 2
    /\ refine_started

\* positions of the stages of a run
ScrapingActive == scr_pc \in {"item", "finish_item", "reddit_search", "reddit_post",
                              "web_search", "web_fetch"}
SummarizingActive == summ_pc \in {"prepare", "item", "attempt", "append"}
GeneratingActive == rep_pc \in {"generate_report", "gen_call", "gen_parse", "gen_save"}
RefiningActive == rep_pc \in {"refine_call", "refine_parse", "refine_save"}

\* every source item has been handled by scrape_content, or none was given
AllItemsScraped == scr_pc = "returned" /\ scr_i > Len(sources_or_urls)

\* every item of the summarizer's list has its record, or was too short for one
AllItemsSummarized ==
    /\ summ_pc = "done"
    /\ item_i > Len(content_to_process)
    /\ Len(summaries_with_scores) =
          Cardinality({k \in 1..Len(content_to_process) :
                          content_to_process[k].content_len >= MinSummaryInputLen})

(***************************************************************************)
(* C31: the stages of one run are strictly ordered and never overlap: at   *)
(* most one stage is active at a time, summarize_content is not entered    *)
(* and calls no LLM before scrape_content has handled all its items, the   *)
(* report generation calls no LLM before every item has been summarized,   *)
(* and the refinement calls no LLM unless generate_report succeeded and    *)
(* the initial report was saved.                                           *)
(***************************************************************************)
C31_StagesOrdered ==
    /\ Cardinality({st \in {"scrape", "summarize", "generate", "refine"} :
                       \/ st = "scrape" /\ ScrapingActive
                       \/ st = "summarize" /\ SummarizingActive
                       \/ st = "generate" /\ GeneratingActive
                       \/ st = "refine" /\ RefiningActive}) <= 1
    /\ (summ_pc # "idle" \/ item_llm_calls > 0 \/ summaries_with_scores # <<>>)
          => AllItemsScraped
    /\ (GeneratingActive \/ gen_history # <<>>) => AllItemsScraped /\ AllItemsSummarized
    /\ (RefiningActive \/ ref_history # <<>>) =>
          /\ AllItemsScraped /\ AllItemsSummarized
          /\ gen_result \in {"archive", "cwd"}
          /\ initial_file_written
          /\ gen_history # <<>>

\* a completed run in which every stage made its calls: a fetch, a summary
\* call whose record fed the report, a generation call, a refinement call
C31_Witness ==
    /\ run_status = "completed"
    /\ fetch_log # <<>>
    /\ Len(summaries_with_scores) = 1
    /\ top_summaries # <<>>
    /\ gen_history # <<>>
    /\ ref_history # <<>>

\* C32: in scrape_content the politeness delay occurs between every two
\* successive source items, whatever path the earlier item took: once the
\* loop has moved past an item that is not the last, the delay after that
\* item has been made.
C32_DelayBetweenItems ==
    \A k \in 1..(Len(sources_or_urls) - 1) :
        (scr_pc \in {"item", "finish_item", "reddit_search", "reddit_post", "web_search",
                     "web_fetch", "done"} /\ scr_i > k)
            => k \in delays

\* the URLs of the direct-articles file
DirectUrlSet == {direct_article_urls[k] : k \in 1..Len(direct_article_urls)}

(***************************************************************************)
(* C33: with --no-search a run makes no call of discover_sources, calls no *)
(* search provider and acquires no Selenium session; only members of the   *)
(* direct-URL list are fetched or yield ContentRecords.                    *)
(***************************************************************************)
C33_NoSearchUsesDirectUrlsOnly ==
    no_search =>
        /\ discover_calls = 0
        /\ gw = NoGw
        /\ sessions_open = 0 /\ ~driver_open
        /\ \A k \in 1..Len(fetch_log) :
              fetch_log[k].url \in DirectUrlSet /\ fetch_log[k].strategy = "article"
        /\ \A k \in 1..Len(scraped_data) : scraped_data[k].url \in DirectUrlSet
        /\ \A r \in routes : r[2] = "direct" \/ scr_i > r[1]

\* a --no-search run that has handled a Reddit URL of the direct-articles
\* file without a session and has a record from a direct URL
C33_Witness ==
    /\ no_search
    /\ scr_pc = "done"
    /\ \E r \in routes : r[2] = "reddit"
    /\ scraped_data # <<>>

\* the URLs a gateway run gives to its caller
UrlsOf(run) == IF run.result.kind = "list" THEN run.result.urls ELSE <<>>

\* the run g is also a run of the gateways of the set, with the same calls
\* and the same result
SameRunIn(g, runs) ==
    \E run \in runs :
        /\ run.primary = g.primary
        /\ run.fallback_called = g.fallback_called
        /\ run.fallback = g.fallback
        /\ run.result = g.result

(***************************************************************************)
(* C34: the search gateways of the repository apply one policy: what the   *)
(* gateway of scrape_content (content.py) did for a query is what the one  *)
(* of report_builder.py and the one of perform_direct_keyword_search do    *)
(* for the same answers of the providers, and conversely; when both        *)
(* providers signal quota exhaustion the query yields no URLs.             *)
(***************************************************************************)
C34_GatewaysAgree ==
    /\ gw # NoGw =>
          /\ SameRunIn(gw, RbGatewayRuns)
          /\ SameRunIn(gw, DksGatewayRuns)
          /\ (gw.primary = SQuota /\ gw.fallback = SQuota) => UrlsOf(gw) = <<>>
    /\ dks_gw # NoGw =>
          /\ SameRunIn(dks_gw, GatewayRuns)
          /\ SameRunIn(dks_gw, RbGatewayRuns)
          /\ (dks_gw.primary = SQuota /\ dks_gw.fallback = SQuota) => UrlsOf(dks_gw) = <<>>
    /\ GatewayRuns = RbGatewayRuns /\ GatewayRuns = DksGatewayRuns

\* the keyword search has seen the quota signal of the primary provider and
\* no answer from the fallback, and selected nothing for the keyword
C34_Witness ==
    /\ dks_gw # NoGw
    /\ dks_gw.primary = SQuota
    /\ dks_gw.fallback_called
    /\ dks_gw.fallback = SNone
    /\ dks_gw.result = SNone

\* C35: refine_report_presentation of report_builder.py never lets an
\* exception out: a failed LLM call, an exhausted parse loop and an I/O error
\* while the refined report is saved all make it return None, and a run that
\* has started the refinement ends as completed, with the initial report as
\* its result when the refinement failed.
C35_RefineNeverPropagates ==
    /\ refine_result \in {"none", "None", "md", "md_and_pdf"}
    /\ (refine_started /\ rep_pc = "exit") =>
          /\ run_status = "completed"
          /\ refine_result = "None" => final_report_path_to_show = "initial"

\* the last response of the refinement gave a refined report, so that the
\* function went on to save it
RefinedReportParsed ==
    /\ ref_history # <<>>
    /\ LET resp == ref_history[Len(ref_history)]
       IN  /\ ~Falsy(resp)
           /\ ~parse_failed(parse_ai_tool_response(resp, "refinedReport"), resp)

\* how the write of the markdown file ended
MarkdownWrite == IF PersistedAs("md", refined_report_text) THEN "written" ELSE "ioerror"

\* C36: the two copies of refine_report_presentation are observationally
\* equivalent: for the responses of the LLM and the outcomes of the markdown
\* write and of the PDF conversion that the copy of
\* functions/processing/report_generation.py has met, the copy of
\* report_builder.py returns the value this copy returned.
C36_RefineCopiesAgree ==
    (refine_started /\ RefineReturned) =>
        refine_result = IF RefinedReportParsed
                        THEN rb_refine_save_result(MarkdownWrite, pdf_success)
                        ELSE refine_failure_value

\* <name> of a Reddit source: what follows 'r/' at the start of the item, or
\* 'reddit.com/r/' inside it, up to the next '/'
CommunityName(item) ==
    LET marker == <<"reddit.com", "/", "r", "/">>
        rest == IF StartsWith(item, <<"r", "/">>) THEN SubSeq(item, 3, Len(item))
                ELSE SubSeq(item, Find(item, marker, 1) + Len(marker), Len(item))
    IN  SplitFirst(rest, "/")

\* C37: for every item classified as a Reddit source, in the form 'r/<name>'
\* and in the form of a URL that contains 'reddit.com/r/<name>', the
\* subreddit whose searches and posts are scraped is <name>.
C37_SubredditIsNamedCommunity ==
    (scr_pc \in {"reddit_search", "reddit_post"} /\ scr_i <= Len(sources_or_urls)) =>
        subreddit_name = CommunityName(sources_or_urls[scr_i])

\* the run has ended, or the function followed on its own has returned
Terminated ==
    \/ run_status \in {"completed", "failed"}
    \/ disc_pc = "returned"
    \/ fn_pc = "clean_returned"

\* calls of the LLM made so far by each stage
CallsWithinBounds ==
    /\ discover_calls <= 1
    /\ Len(disc_llm_calls) <= 1
    /\ item_llm_calls <= 3
    /\ Len(gen_history) <= 3
    /\ Len(ref_history) <= 3

\* what clean_thinking_tags returns is what its loop has reached, and a
\* further pass leaves it as it is
LoopAtFixedPoint ==
    (fn_pc = "clean_returned" /\ ~fn_text.none) =>
        /\ fn_result = Strip(clean_current_text)
        /\ ReSubThink(clean_current_text, 1) = clean_current_text

(***************************************************************************)
(* C38: provided every network and LLM call returns, every run ends as     *)
(* completed or failed and every call of clean_thinking_tags returns; no   *)
(* retry loop is unbounded: discover_sources calls the LLM at most once,   *)
(* the summarizer at most 3 times for an item, generate_report at most 3   *)
(* times and refine_report_presentation at most 3 times.                   *)
(***************************************************************************)
C38_TerminatesWithinBounds ==
    <>Terminated /\ []CallsWithinBounds /\ []LoopAtFixedPoint

\* a run that completed after three generation calls and three refinement
\* calls
C38_Witness ==
    /\ run_status = "completed"
    /\ Len(gen_history) = 3
    /\ Len(ref_history) = 3
    /\ final_report_path_to_show = "refined"

(***************************************************************************)
(* C39: the web host runs at most one pipeline subprocess at a time: no    *)
(* generate request passes the test of the flag while a report_builder     *)
(* subprocess launched before has not exited, and two subprocesses are     *)
(* never alive together.                                                   *)
(***************************************************************************)
C39_OneSubprocessAtATime ==
    /\ Cardinality(app_alive) <= 1
    /\ ~accepted_while_alive

(***************************************************************************)
(* C40: whenever process_running is set, it is False again later: after    *)
(* the subprocess has exited, failed to start or been stopped, and also    *)
(* when the client has gone before or while the output is streamed.        *)
(***************************************************************************)
C40_FlagReturnsToFalse == process_running ~> ~process_running

\* the client of the first request went away while its output was streamed,
\* the flag is False again and a second request has been accepted
C40_Witness ==
    /\ app_req[1] = "closed"
    /\ ~app_client[1]
    /\ ~process_running
    /\ app_req[2] = "accepted"

====
